---- MODULE Spec2Model ----
(***************************************************************************)
(* Identity extraction and resolution of tg_bot_info_chat.                 *)
(*                                                                         *)
(* One parser (a BaseParser subclass: JSONParser or HTMLParser) resolves   *)
(* the observations of one export file; UserProcessor merges the rosters   *)
(* of the files of a batch.  Python values are encoded as follows:         *)
(*   None of a string field  -> None ("<None>"), '' stays ""               *)
(*   None of a datetime      -> NoDate; an offset-naive datetime is a      *)
(*                              positive integer, an offset-aware one a    *)
(*                              negative integer; comparing a naive with   *)
(*                              an aware datetime raises TypeError         *)
(*   None of a message id    -> NoId                                       *)
(*   a dict                  -> a function whose DOMAIN is the key set     *)
(***************************************************************************)
EXTENDS Integers, Sequences, FiniteSets, TLC

VARIABLES
    parser,     \* the parser of the file being parsed (BaseParser's five dicts)
    pc,         \* position of process_files: "idle" | "parsing" | "aborted"
    proc_users, \* UserProcessor.users
    nfiles,     \* files started in this batch
    nobs,       \* observations made in this batch
    logging,    \* which history is recorded: "off" | "obs" | "files"
    log,        \* history: the observations fed to the current parser
    fileLog,    \* history: the rosters parse() returned, in file order
    scan,       \* a text and what the two mention scanners returned for it
    batch,      \* one call of process_files followed as a whole: its paths,
                \* its extracted_files, its position, what it returned
    user_files, \* handlers.user_files: the pending uploads of each chat user
    call        \* history: the last handler call of the bot and how it ended

vars == <<parser, pc, proc_users, nfiles, nobs, logging, log, fileLog, scan, batch,
         user_files, call>>

-----------------------------------------------------------------------------
(* Bounds of the model *)

MaxObs == 3
MaxFiles == 2
MaxT == 2
MaxAware == 1
MaxTokens == 6
MaxPaths == 3
MaxCalls == 2
MAX_FILES == 2
MAX_FILE_SIZE == 1

-----------------------------------------------------------------------------
(* Encodings of Python values *)

None == "<None>"
NoDate == 0
NoId == -1
\* user_data.get('id') == 'deleted_account': the tombstone string, as an id value
DeletedAccount == -2
\* hash() of a string: far from the authoritative ids of the model
HashBase == 1000

Truthy(s) == s # None /\ s # ""
IdTruthy(i) == i # NoId /\ i # 0

NaiveTimes == 1..MaxT
AwareTimes == {0 - t : t \in 1..MaxAware}
\* datetime.__lt__ raises TypeError between offset-naive and offset-aware values
Comparable(a, b) == (a < 0) = (b < 0)

EmptyDict == <<>>
Put(d, k, v) == (k :> v) @@ d

\* The strings the model hashes, and Python's hash() on them (injective here).
HashTable == <<"alice", "Ann Lee", "bob_smith", "bot7", "channel5", "userx">>
Hash(s) == HashBase + (CHOOSE i \in 1..Len(HashTable) : HashTable[i] = s)

\* str.split(maxsplit=1) on the display names of the model.
SplitName(full_name) ==
    IF full_name = "Ann Lee" THEN <<"Ann", "Lee">>
    ELSE IF full_name = "" THEN <<>>
    ELSE <<full_name>>

\* str.lower() and the substring test (in) on the profile texts of the model
Lower(text) == IF text = "T.ME/ANN" THEN "t.me/ann" ELSE text
Contains(text, kw) ==
    \/ text = "t.me/ann" /\ kw = "t.me/"
    \/ text = "T.ME/ANN" /\ kw = "T.ME/"
    \/ text = "my channel" /\ kw = "channel"

Get(d, k, default) == IF k \in DOMAIN d THEN d[k] ELSE default

-----------------------------------------------------------------------------
(* models/user.py *)

TelegramUser(user_id, username, first_name, last_name, bio, is_bot, has_channel, is_deleted, is_mention_only) ==
    [user_id |-> user_id, username |-> username, first_name |-> first_name,
     last_name |-> last_name, phone_number |-> None, bio |-> bio,
     registration_date |-> NoDate, has_channel |-> has_channel,
     is_bot |-> is_bot, is_deleted |-> is_deleted, mention |-> None,
     first_message_date |-> NoDate, first_message_id |-> NoId,
     first_reaction_date |-> NoDate, first_reaction_emoji |-> None,
     is_mention_only |-> is_mention_only]

\* the value of "user" when a function returned None
NoUser == [none |-> TRUE]

-----------------------------------------------------------------------------
(* parsers/base_parser.py *)

NewParser(kind) ==
    [kind |-> kind, users |-> EmptyDict,
     user_first_message_date |-> EmptyDict, user_first_message_id |-> EmptyDict,
     user_first_reaction_date |-> EmptyDict, user_first_reaction_emoji |-> EmptyDict]

DetectChannelInProfile(bio) ==
    IF ~Truthy(bio) THEN "None"
    ELSE IF \E kw \in {"kanal", "channel", "t.me/", "telegram.me/", "@"} :
                Contains(Lower(bio), kw)
         THEN IF Contains(bio, "t.me/") \/ Contains(bio, "telegram.me/")
              THEN "True" ELSE "None"
         ELSE "None"

\* str.startswith on the secondary identifiers (from_id) of the model
StartsWith(from_id, prefix) ==
    \/ prefix = "user" /\ from_id \in {"user1", "user2", "user1001", "userx"}
    \/ prefix = "channel" /\ from_id \in {"channel5"}

\* int(from_id_field.replace('user', '')); NoId stands for its ValueError
IntOfUserId(from_id) ==
    IF from_id = "user1" THEN 1
    ELSE IF from_id = "user2" THEN 2
    ELSE IF from_id = "user1001" THEN 1001
    ELSE NoId

\* faulty variant: the history of key 0 is recorded like that of any key
SaveFirstMessage_KeyZero(st, user_id, message_date, message_id) ==
    LET stored == [st EXCEPT
            !.user_first_message_date = Put(@, user_id, message_date),
            !.user_first_message_id =
                IF IdTruthy(message_id) THEN Put(@, user_id, message_id) ELSE @]
    IN  IF message_date # NoDate
        THEN IF user_id \notin DOMAIN st.user_first_message_date
             THEN [st |-> stored, raised |-> FALSE]
             ELSE IF ~Comparable(message_date, st.user_first_message_date[user_id])
             THEN [st |-> st, raised |-> TRUE]
             ELSE IF message_date < st.user_first_message_date[user_id]
             THEN [st |-> stored, raised |-> FALSE]
             ELSE [st |-> st, raised |-> FALSE]
        ELSE [st |-> st, raised |-> FALSE]

\* lines 103-112: the earliest message date and id of a key.
\* Returns the parser and whether the comparison raised.
SaveFirstMessage(st, user_id, message_date, message_id) ==
    LET stored == [st EXCEPT
            !.user_first_message_date = Put(@, user_id, message_date),
            !.user_first_message_id =
                IF IdTruthy(message_id) THEN Put(@, user_id, message_id) ELSE @]
    IN  IF message_date # NoDate /\ user_id # 0
        THEN IF user_id \notin DOMAIN st.user_first_message_date
             THEN [st |-> stored, raised |-> FALSE]
             ELSE IF ~Comparable(message_date, st.user_first_message_date[user_id])
             THEN [st |-> st, raised |-> TRUE]
             ELSE IF message_date < st.user_first_message_date[user_id]
             THEN [st |-> stored, raised |-> FALSE]
             ELSE [st |-> st, raised |-> FALSE]
        ELSE [st |-> st, raised |-> FALSE]

\* faulty variant: a channel identifier is hashed like any other identifier
UserFromString_ChannelKept(full_name, from_id) ==
    LET user_id == IF from_id # None
                   THEN IF StartsWith(from_id, "user") THEN IntOfUserId(from_id)
                        ELSE Hash(from_id)
                   ELSE Hash(full_name)
        name_parts == SplitName(full_name)
    IN  IF from_id # None /\ StartsWith(from_id, "user") /\ user_id = NoId
        THEN NoUser
        ELSE TelegramUser(user_id, None,
                 IF Len(name_parts) > 0 THEN name_parts[1] ELSE full_name,
                 IF Len(name_parts) > 1 THEN name_parts[2] ELSE None,
                 None, FALSE, "None", FALSE, FALSE)

\* lines 40-71: "from" is a display name, the key comes from "from_id"
UserFromString(full_name, from_id) ==
    LET user_id == IF from_id # None
                   THEN IF StartsWith(from_id, "user") THEN IntOfUserId(from_id)
                        ELSE Hash(from_id)
                   ELSE Hash(full_name)
        name_parts == SplitName(full_name)
    IN  IF from_id # None /\ StartsWith(from_id, "user") /\ user_id = NoId
        THEN NoUser   \* ValueError, caught at lines 115-117
        ELSE IF from_id # None /\ ~StartsWith(from_id, "user")
                /\ StartsWith(from_id, "channel")
        THEN NoUser   \* a channel
        ELSE TelegramUser(user_id, None,
                 IF Len(name_parts) > 0 THEN name_parts[1] ELSE full_name,
                 IF Len(name_parts) > 1 THEN name_parts[2] ELSE None,
                 None, FALSE, "None", FALSE, FALSE)

\* faulty variant: the tombstone is read as an id like any other
UserFromObject_NoTombstone(user_data) ==
    LET bio == Get(user_data, "bio", "")
    IN  TelegramUser(Get(user_data, "id", 0),
            Get(user_data, "username", None),
            Get(user_data, "first_name", None),
            Get(user_data, "last_name", None),
            bio, Get(user_data, "is_bot", FALSE),
            DetectChannelInProfile(bio), FALSE, FALSE)

\* lines 73-101: "from" is an object (or anything that is not a string)
UserFromObject(user_data) ==
    IF Get(user_data, "id", 0) = DeletedAccount
    THEN TelegramUser(0, None, "Deleted Account", None, None, FALSE, "None",
                      TRUE, FALSE)
    ELSE LET bio == Get(user_data, "bio", "")
         IN  TelegramUser(Get(user_data, "id", 0),
                 Get(user_data, "username", None),
                 Get(user_data, "first_name", None),
                 Get(user_data, "last_name", None),
                 bio, Get(user_data, "is_bot", FALSE),
                 DetectChannelInProfile(bio), FALSE, FALSE)

\* lines 32-117: _extract_user_from_message.  message_data.from is
\* [type |-> "str", value |-> name], [type |-> "dict", value |-> user_data] or
\* [type |-> "other"]; message_data.from_id is a string or None.
ExtractUserFromMessage(st, message_data, message_date, message_id) ==
    LET from_field == message_data.from
        user == IF from_field.type = "str"
                THEN UserFromString(from_field.value, message_data.from_id)
                ELSE UserFromObject(IF from_field.type = "dict"
                                    THEN from_field.value ELSE EmptyDict)
    IN  IF user = NoUser \/ user.is_deleted
        THEN [st |-> st, user |-> user]
        ELSE LET saved == SaveFirstMessage(st, user.user_id, message_date, message_id)
             IN  IF saved.raised THEN [st |-> st, user |-> NoUser]
                 ELSE [st |-> saved.st, user |-> user]

\* faulty variant: the flag of the latest observation wins
MergeMentionOnly_LastWins(existing, user) ==
    [existing EXCEPT !.is_mention_only = user.is_mention_only]

\* faulty variant: the flag is never cleared
MergeMentionOnly_NeverCleared(existing, user) == existing

\* lines 164-165: a non-mention-only observation clears the flag
MergeMentionOnly(existing, user) ==
    IF ~user.is_mention_only THEN [existing EXCEPT !.is_mention_only = FALSE]
    ELSE existing

\* faulty variant: a registration date that is set is kept
MergeRegistrationDate_KeepsFirst(existing, user_id, st) ==
    IF user_id \in DOMAIN st.user_first_message_date /\ existing.registration_date = NoDate
    THEN [existing EXCEPT !.registration_date = st.user_first_message_date[user_id]]
    ELSE existing

\* lines 167-168
MergeRegistrationDate(existing, user_id, st) ==
    IF user_id \in DOMAIN st.user_first_message_date
    THEN [existing EXCEPT !.registration_date = st.user_first_message_date[user_id]]
    ELSE existing

\* lines 170-178
MergeFirstMessage(existing, user_id, st) ==
    IF user_id \in DOMAIN st.user_first_message_date
    THEN LET new_date == st.user_first_message_date[user_id]
         IN  IF existing.first_message_date = NoDate
                \/ new_date < existing.first_message_date
             THEN [existing EXCEPT
                     !.first_message_date = new_date,
                     !.first_message_id =
                         IF user_id \in DOMAIN st.user_first_message_id
                         THEN st.user_first_message_id[user_id] ELSE @]
             ELSE existing
    ELSE IF user_id \in DOMAIN st.user_first_message_id
            /\ ~IdTruthy(existing.first_message_id)
    THEN [existing EXCEPT !.first_message_id = st.user_first_message_id[user_id]]
    ELSE existing

\* lines 180-188
MergeFirstReaction(existing, user_id, st) ==
    IF user_id \in DOMAIN st.user_first_reaction_date
    THEN LET new_reaction_date == st.user_first_reaction_date[user_id]
         IN  IF existing.first_reaction_date = NoDate
                \/ new_reaction_date < existing.first_reaction_date
             THEN [existing EXCEPT
                     !.first_reaction_date = new_reaction_date,
                     !.first_reaction_emoji =
                         IF user_id \in DOMAIN st.user_first_reaction_emoji
                         THEN st.user_first_reaction_emoji[user_id] ELSE @]
             ELSE existing
    ELSE IF user_id \in DOMAIN st.user_first_reaction_emoji
            /\ ~Truthy(existing.first_reaction_emoji)
    THEN [existing EXCEPT
            !.first_reaction_emoji = st.user_first_reaction_emoji[user_id]]
    ELSE existing

\* faulty variant: the flag of the latest observation wins, unknown included
MergeHasChannel_LastWins(existing, user) ==
    [existing EXCEPT !.has_channel = user.has_channel]

\* lines 190-191
MergeHasChannel(existing, user) ==
    IF user.has_channel # "None"
    THEN [existing EXCEPT !.has_channel = user.has_channel] ELSE existing

\* lines 193-194: the username of the new observation always wins
MergeUsername(existing, user) ==
    IF Truthy(user.username)
    THEN [existing EXCEPT !.username = user.username] ELSE existing

\* lines 196-207: fields filled only while they are empty
MergeEmptyFields(existing, user) ==
    [existing EXCEPT
        !.phone_number = IF ~Truthy(@) /\ Truthy(user.phone_number)
                         THEN user.phone_number ELSE @,
        !.mention = IF ~Truthy(@) /\ Truthy(user.mention) THEN user.mention ELSE @,
        !.first_name = IF ~Truthy(@) /\ Truthy(user.first_name)
                       THEN user.first_name ELSE @,
        !.last_name = IF ~Truthy(@) /\ Truthy(user.last_name)
                      THEN user.last_name ELSE @,
        !.bio = IF ~Truthy(@) /\ Truthy(user.bio) THEN user.bio ELSE @]

\* faulty variant: the new observation replaces the stored identity
UpdateExisting_Replace(existing, user, st) == user

\* lines 160-207: the key is already in self.users
UpdateExisting(existing, user, st) ==
    LET user_id == user.user_id
        e1 == MergeMentionOnly(existing, user)
        e2 == MergeRegistrationDate(e1, user_id, st)
        e3 == MergeFirstMessage(e2, user_id, st)
        e4 == MergeFirstReaction(e3, user_id, st)
        e5 == MergeHasChannel(e4, user)
        e6 == MergeUsername(e5, user)
    IN  MergeEmptyFields(e6, user)

\* faulty variant: a new key is stored as observed, without its history
NewUserWithHistory_Plain(user, st) == user

\* lines 208-218: a new key takes the history recorded for it so far
NewUserWithHistory(user, st) ==
    LET user_id == user.user_id
        fmd == st.user_first_message_date
    IN  [user EXCEPT
            !.registration_date = IF user_id \in DOMAIN fmd THEN fmd[user_id] ELSE @,
            !.first_message_date = IF user_id \in DOMAIN fmd THEN fmd[user_id] ELSE @,
            !.first_message_id = Get(st.user_first_message_id, user_id, @),
            !.first_reaction_date = Get(st.user_first_reaction_date, user_id, @),
            !.first_reaction_emoji = Get(st.user_first_reaction_emoji, user_id, @)]

\* the < of lines 172 and 182 raises TypeError (nothing catches it in the parser)
AddUserRaises(st, user) ==
    /\ user # NoUser
    /\ ~user.is_deleted
    /\ user.user_id \in DOMAIN st.users
    /\ LET k == user.user_id
           existing == st.users[k]
       IN  \/ /\ k \in DOMAIN st.user_first_message_date
              /\ existing.first_message_date # NoDate
              /\ ~Comparable(st.user_first_message_date[k], existing.first_message_date)
           \/ /\ k \in DOMAIN st.user_first_reaction_date
              /\ existing.first_reaction_date # NoDate
              /\ ~Comparable(st.user_first_reaction_date[k],
                             existing.first_reaction_date)

\* faulty variant: a user that has a handle is stored under the hash of the handle
StoreNewUser_ByHandle(users, user, st) ==
    Put(users, IF Truthy(user.username) THEN Hash(user.username) ELSE user.user_id,
        NewUserWithHistory(user, st))

\* line 219: self.users[user_id] = user
StoreNewUser(users, user, st) == Put(users, user.user_id, NewUserWithHistory(user, st))

\* faulty variant: the deletion flag is not tested
Accepted_DeletedToo(user) == user # NoUser

\* line 157: if user and not user.is_deleted
Accepted(user) == user # NoUser /\ ~user.is_deleted

\* faulty variant: a deletion removes the identity stored under its key
AddUser_DeletionRemoves(st, user) ==
    IF user # NoUser /\ user.is_deleted
    THEN [st EXCEPT !.users = [k \in DOMAIN @ \ {user.user_id} |-> @[k]]]
    ELSE IF ~Accepted(user) \/ AddUserRaises(st, user) THEN st
    ELSE IF user.user_id \in DOMAIN st.users
    THEN [st EXCEPT !.users[user.user_id] = UpdateExisting(@, user, st)]
    ELSE [st EXCEPT !.users = StoreNewUser(@, user, st)]

\* lines 155-219: _add_user
AddUser(st, user) ==
    IF ~Accepted(user) \/ AddUserRaises(st, user) THEN st
    ELSE IF user.user_id \in DOMAIN st.users
    THEN [st EXCEPT !.users[user.user_id] = UpdateExisting(@, user, st)]
    ELSE [st EXCEPT !.users = StoreNewUser(@, user, st)]

\* lines 221-236: get_unique_users fills the history fields still unset
FillUser(user, user_id, st) ==
    LET fmd == st.user_first_message_date
        u1 == IF user_id \in DOMAIN fmd
              THEN [user EXCEPT
                      !.registration_date = IF @ = NoDate THEN fmd[user_id] ELSE @,
                      !.first_message_date = IF @ = NoDate THEN fmd[user_id] ELSE @]
              ELSE user
        u2 == IF user_id \in DOMAIN st.user_first_message_id
                 /\ ~IdTruthy(u1.first_message_id)
              THEN [u1 EXCEPT !.first_message_id = st.user_first_message_id[user_id]]
              ELSE u1
        u3 == IF user_id \in DOMAIN st.user_first_reaction_date
                 /\ u2.first_reaction_date = NoDate
              THEN [u2 EXCEPT !.first_reaction_date =
                                  st.user_first_reaction_date[user_id]]
              ELSE u2
    IN  IF user_id \in DOMAIN st.user_first_reaction_emoji
           /\ ~Truthy(u3.first_reaction_emoji)
        THEN [u3 EXCEPT !.first_reaction_emoji =
                            st.user_first_reaction_emoji[user_id]]
        ELSE u3

GetUniqueUsers(st) ==
    [st EXCEPT !.users = [k \in DOMAIN st.users |-> FillUser(st.users[k], k, st)]]

-----------------------------------------------------------------------------
(* parsers/json_parser.py *)

\* faulty variant: a reaction without a date is stored as well
SaveFirstReaction_Undated(st, user_id, reaction_date, emoji) ==
    LET stored == [st EXCEPT
            !.user_first_reaction_date = Put(@, user_id, reaction_date),
            !.user_first_reaction_emoji =
                IF Truthy(emoji) THEN Put(@, user_id, emoji) ELSE @]
    IN  IF user_id = 0
        THEN [st |-> st, raised |-> FALSE]
        ELSE IF user_id \notin DOMAIN st.user_first_reaction_date
        THEN [st |-> stored, raised |-> FALSE]
        ELSE IF ~Comparable(reaction_date, st.user_first_reaction_date[user_id])
        THEN [st |-> st, raised |-> TRUE]
        ELSE IF reaction_date < st.user_first_reaction_date[user_id]
        THEN [st |-> stored, raised |-> FALSE]
        ELSE [st |-> st, raised |-> FALSE]

\* lines 276-289: _save_first_reaction; may raise at line 286
SaveFirstReaction(st, user_id, reaction_date, emoji) ==
    LET stored == [st EXCEPT
            !.user_first_reaction_date = Put(@, user_id, reaction_date),
            !.user_first_reaction_emoji =
                IF Truthy(emoji) THEN Put(@, user_id, emoji) ELSE @]
    IN  IF reaction_date = NoDate \/ user_id = 0
        THEN [st |-> st, raised |-> FALSE]
        ELSE IF user_id \notin DOMAIN st.user_first_reaction_date
        THEN [st |-> stored, raised |-> FALSE]
        ELSE IF ~Comparable(reaction_date, st.user_first_reaction_date[user_id])
        THEN [st |-> st, raised |-> TRUE]
        ELSE IF reaction_date < st.user_first_reaction_date[user_id]
        THEN [st |-> stored, raised |-> FALSE]
        ELSE [st |-> st, raised |-> FALSE]

\* A raw date is [kind, fmt, t]: kind is "str" (fmt is the pattern the string
\* is written in, "" when it is written in none, t the instant it denotes),
\* "number" (t seconds of the epoch), "number_out_of_range" or "other" (null,
\* a list, an object).  A key that is absent reads as the default ''.
AbsentDate == [kind |-> "str", fmt |-> "", t |-> 0]

\* lines 98-103 and 258-263: the patterns tried in turn; "%z" gives an
\* offset-aware value
JsonNaiveFormats == {"%Y-%m-%dT%H:%M:%S", "%Y-%m-%d %H:%M:%S"}
JsonAwareFormats == {"%Y-%m-%dT%H:%M:%S%z", "%Y-%m-%dT%H:%M:%S.%f%z"}

\* lines 92-114: _extract_message_date; every exception ends in "return None"
ExtractMessageDate(raw) ==
    IF raw.kind = "str"
    THEN IF raw.fmt \in JsonNaiveFormats THEN raw.t
         ELSE IF raw.fmt \in JsonAwareFormats THEN 0 - raw.t
         ELSE NoDate
    ELSE IF raw.kind = "number" THEN raw.t   \* datetime.fromtimestamp: naive
    ELSE NoDate

\* lines 252-274: _extract_reaction_date
ExtractReactionDate(raw) ==
    IF raw.kind = "str"
    THEN IF raw.fmt \in JsonNaiveFormats THEN raw.t
         ELSE IF raw.fmt \in JsonAwareFormats THEN 0 - raw.t
         ELSE NoDate
    ELSE IF raw.kind = "number" THEN raw.t
    ELSE NoDate

\* lines 36-45 of parse: the author of a message, with the phone number and
\* the mention found in the message
ObserveAuthor(st, o) ==
    LET r == ExtractUserFromMessage(st, o.message_data, o.date, o.id)
        u1 == IF r.user # NoUser /\ Truthy(o.phone_number)
                 /\ ~Truthy(r.user.phone_number)
              THEN [r.user EXCEPT !.phone_number = o.phone_number] ELSE r.user
        u2 == IF u1 # NoUser /\ Truthy(o.mention) /\ ~Truthy(u1.mention)
              THEN [u1 EXCEPT !.mention = o.mention] ELSE u1
    IN  [st |-> AddUser(r.st, u2), raised |-> AddUserRaises(r.st, u2)]

\* lines 47-52 of parse and 139-157: a handle sliced out of the text by a
\* "mention" entity; the temporary user is not marked mention-only
ObserveMention(st, o) ==
    LET temp_user == TelegramUser(Hash(o.username), o.username, None, None,
                                  None, FALSE, "None", FALSE, FALSE)
    IN  [st |-> AddUser(st, temp_user), raised |-> AddUserRaises(st, temp_user)]

\* faulty variant: a handle found by the scan gets a key of its own
ObserveScannedMention_OwnKey(st, o) ==
    LET temp_user == TelegramUser(Hash(o.username) + 1, o.username, None, None,
                                  None, FALSE, "None", FALSE, FALSE)
    IN  [st |-> AddUser(st, temp_user), raised |-> AddUserRaises(st, temp_user)]

\* lines 54-66 of parse: a handle found by the scan of the text of the message
ObserveScannedMention(st, o) ==
    LET temp_user == TelegramUser(Hash(o.username), o.username, None, None,
                                  None, FALSE, "None", FALSE, FALSE)
    IN  [st |-> AddUser(st, temp_user), raised |-> AddUserRaises(st, temp_user)]

\* lines 158-165 and 49-52: a "text_mention" entity carries a user object
ObserveTextMention(st, o) ==
    IF o.user_data = EmptyDict THEN [st |-> st, raised |-> FALSE]
    ELSE LET r == ExtractUserFromMessage(st,
                      [from |-> [type |-> "dict", value |-> o.user_data],
                       from_id |-> None], NoDate, NoId)
         IN  [st |-> AddUser(r.st, r.user), raised |-> AddUserRaises(r.st, r.user)]

\* faulty variant: the date of the reaction is given to the author resolution
ObserveReaction_AsMessage(st, o) ==
    LET r == ExtractUserFromMessage(st, o.message_data, o.date, NoId)
    IN  IF r.user = NoUser THEN [st |-> r.st, raised |-> FALSE]
        ELSE LET saved == SaveFirstReaction(r.st, r.user.user_id, o.date, o.emoji)
             IN  IF saved.raised THEN [st |-> st, raised |-> TRUE]
                 ELSE [st |-> AddUser(saved.st, r.user),
                       raised |-> AddUserRaises(saved.st, r.user)]

\* lines 70-81 of parse: one entry of a reaction's "recent" list
ObserveReaction(st, o) ==
    LET r == ExtractUserFromMessage(st, o.message_data, NoDate, NoId)
    IN  IF r.user = NoUser THEN [st |-> r.st, raised |-> FALSE]
        ELSE LET saved == SaveFirstReaction(r.st, r.user.user_id, o.date, o.emoji)
             IN  IF saved.raised THEN [st |-> st, raised |-> TRUE]
                 ELSE [st |-> AddUser(saved.st, r.user),
                       raised |-> AddUserRaises(saved.st, r.user)]

\* lines 30, 70-71 and 139 of json_parser.py: .get() on a message, a reaction
\* or an entity that is not an object raises AttributeError (and a "reactions"
\* or "recent" value that is not iterable raises TypeError); nothing catches
\* it before the handlers of lines 85-90
ObserveMalformed(st, o) == [st |-> st, raised |-> TRUE]

-----------------------------------------------------------------------------
(* parsers/html_parser.py *)

\* lines 77-82: the patterns of the markup export, none with an offset
HtmlFormats == {"%d.%m.%Y %H:%M:%S", "%Y-%m-%d %H:%M:%S", "%d.%m.%Y %H:%M", "%Y-%m-%d %H:%M"}

\* lines 69-91: _extract_message_date_from_html; raw is the title or the text
\* of the date element (AbsentDate: no date element, or an empty one)
ExtractMessageDateFromHtml(raw) ==
    IF raw.kind = "str" /\ raw.fmt \in HtmlFormats THEN raw.t ELSE NoDate

\* lines 93-129 and 33-39: the author of a message block; full_name is the
\* stripped text of the from_name element
ObserveHtmlAuthor(st, o) ==
    IF o.full_name = "" THEN [st |-> st, raised |-> FALSE]
    ELSE LET name_parts == SplitName(o.full_name)
             user_data == [id |-> Hash(o.full_name), username |-> None,
                           first_name |-> name_parts[1],
                           last_name |-> IF Len(name_parts) > 1
                                         THEN name_parts[2] ELSE None,
                           bio |-> None]
             r == ExtractUserFromMessage(st,
                      [from |-> [type |-> "dict", value |-> user_data],
                       from_id |-> None], o.date, NoId)
         IN  [st |-> AddUser(r.st, r.user), raised |-> AddUserRaises(r.st, r.user)]

\* lines 43-58: a handle found in the text of a message block
ObserveHtmlMention(st, o) ==
    LET temp_user == TelegramUser(Hash(o.username), o.username, None, None,
                                  None, FALSE, "None", FALSE, TRUE)
    IN  [st |-> AddUser(st, temp_user), raised |-> AddUserRaises(st, temp_user)]

\* one observation, by the kind of record it comes from
Observe(st, o) ==
    CASE o.op = "author" -> ObserveAuthor(st, o)
      [] o.op = "mention" -> ObserveMention(st, o)
      [] o.op = "scan_mention" -> ObserveScannedMention(st, o)
      [] o.op = "text_mention" -> ObserveTextMention(st, o)
      [] o.op = "reaction" -> ObserveReaction(st, o)
      [] o.op = "html_author" -> ObserveHtmlAuthor(st, o)
      [] o.op = "html_mention" -> ObserveHtmlMention(st, o)
      [] o.op = "malformed" -> ObserveMalformed(st, o)

\* the list parse() returns: get_unique_users(), or [] when an exception
\* ended the pass (json_parser.py lines 83-90, html_parser.py lines 60-67)
RosterOf(st) == {st.users[k] : k \in DOMAIN st.users}
ParseResult(st, aborted) == IF aborted THEN {} ELSE RosterOf(GetUniqueUsers(st))

-----------------------------------------------------------------------------
(* processors/user_processor.py *)

\* faulty variant: the bot flag of the file merged last wins
MergeUser_BotOverwritten(users, user) ==
    IF user = NoUser \/ user.is_deleted THEN users
    ELSE IF user.user_id \notin DOMAIN users THEN Put(users, user.user_id, user)
    ELSE [users EXCEPT ![user.user_id] =
            [@ EXCEPT
                !.is_bot = user.is_bot,
                !.username = IF Truthy(user.username) THEN user.username ELSE @,
                !.first_name = IF Truthy(user.first_name) /\ ~Truthy(@)
                               THEN user.first_name ELSE @,
                !.last_name = IF Truthy(user.last_name) /\ ~Truthy(@)
                              THEN user.last_name ELSE @]]

\* faulty variant: the earlier of the two earliest-message dates is kept too
MergeUser_EarliestMessage(users, user) ==
    IF user = NoUser \/ user.is_deleted THEN users
    ELSE IF user.user_id \notin DOMAIN users THEN Put(users, user.user_id, user)
    ELSE [users EXCEPT ![user.user_id] =
            [@ EXCEPT
                !.first_message_date =
                    IF user.first_message_date # NoDate
                       /\ (@ = NoDate \/ (Comparable(@, user.first_message_date)
                                          /\ user.first_message_date < @))
                    THEN user.first_message_date ELSE @,
                !.username = IF Truthy(user.username) THEN user.username ELSE @,
                !.first_name = IF Truthy(user.first_name) /\ ~Truthy(@)
                               THEN user.first_name ELSE @,
                !.last_name = IF Truthy(user.last_name) /\ ~Truthy(@)
                              THEN user.last_name ELSE @]]

\* lines 125-140: one user of a parsed file
MergeUser(users, user) ==
    IF user = NoUser \/ user.is_deleted THEN users
    ELSE IF user.user_id \notin DOMAIN users THEN Put(users, user.user_id, user)
    ELSE [users EXCEPT ![user.user_id] =
            [@ EXCEPT
                !.username = IF Truthy(user.username) THEN user.username ELSE @,
                !.first_name = IF Truthy(user.first_name) /\ ~Truthy(@)
                               THEN user.first_name ELSE @,
                !.last_name = IF Truthy(user.last_name) /\ ~Truthy(@)
                              THEN user.last_name ELSE @]]

\* faulty variant: the users of the file replace the running roster
MergeUsers_Replace(users, roster) ==
    [k \in {u.user_id : u \in roster} |-> CHOOSE u \in roster : u.user_id = k]

\* lines 122-140: _merge_users, over the list a parser returned
RECURSIVE MergeUsers(_, _)
MergeUsers(users, roster) ==
    IF roster = {} THEN users
    ELSE LET user == CHOOSE u \in roster : TRUE
         IN  MergeUsers(MergeUser(users, user), roster \ {user})

-----------------------------------------------------------------------------
(* The records the export files of the model are made of *)

StrAuthor(name, from_id) ==
    [from |-> [type |-> "str", value |-> name], from_id |-> from_id]
ObjAuthor(user_data) ==
    [from |-> [type |-> "dict", value |-> user_data], from_id |-> None]

UserObjects ==
    { [id |-> 1, username |-> "alice", first_name |-> "Annie",
       bio |-> "t.me/ann", is_bot |-> FALSE],
      [id |-> 1, username |-> "bob_smith", is_bot |-> TRUE],
      [id |-> DeletedAccount],
      [first_name |-> "Ghost"] }

\* author records resolved under key 1, and the other shapes of an author
\* ("user1001" is an id of the file that equals hash("alice"): ids and
\* hash() values are integers of one key space)
KeyOneAuthors ==
    {StrAuthor("Ann Lee", "user1")}
    \cup {ObjAuthor(ud) : ud \in {x \in UserObjects : Get(x, "id", 0) = 1}}

OtherAuthors ==
    { StrAuthor("alice", "user2"), StrAuthor("alice", None),
      StrAuthor("News", "channel5"), StrAuthor("Ann Lee", "bot7"),
      StrAuthor("Ann Lee", "userx"), StrAuthor("Zoe", "user1001"),
      [from |-> [type |-> "other"], from_id |-> "user1"] }
    \cup {ObjAuthor(ud) : ud \in {x \in UserObjects : Get(x, "id", 0) # 1}}

\* the raw dates of the records: every pattern with the instants of the
\* model, strings written in no pattern, numbers, and values of other types
RawStrDates(formats, instants) ==
    {[kind |-> "str", fmt |-> f, t |-> t] : f \in formats, t \in instants}

UnparseableDates ==
    {AbsentDate, [kind |-> "str", fmt |-> "", t |-> 1],
     [kind |-> "number_out_of_range", fmt |-> "", t |-> 0],
     [kind |-> "other", fmt |-> "", t |-> 0]}

RawJsonDates ==
    RawStrDates(JsonNaiveFormats, 1..MaxT) \cup RawStrDates(JsonAwareFormats, 1..MaxAware)
    \cup {[kind |-> "number", fmt |-> "", t |-> t] : t \in 1..MaxT}
    \cup RawStrDates(HtmlFormats \ JsonNaiveFormats, 1..MaxT)
    \cup UnparseableDates

RawHtmlDates ==
    RawStrDates(HtmlFormats, 1..MaxT)
    \cup RawStrDates(JsonAwareFormats, 1..MaxAware)
    \cup {r \in UnparseableDates : r.kind = "str"}

\* the dates the records of a JSON file are normalized to
Times == {ExtractMessageDate(raw) : raw \in RawJsonDates} \ {NoDate}

ReactionTimes == {ExtractReactionDate(raw) : raw \in RawJsonDates}

HtmlTimes == {ExtractMessageDateFromHtml(raw) : raw \in RawHtmlDates}

\* the message id that goes with a date in the files of the model
IdAt(t) == 10 + t

AuthorObs ==
    {[op |-> "author", message_data |-> m, date |-> t, id |-> IdAt(t),
      phone_number |-> None, mention |-> None] :
        m \in {x \in KeyOneAuthors : x.from.type = "str" \/ ~x.from.value.is_bot},
        t \in Times}
    \cup {[op |-> "author", message_data |-> m, date |-> 1, id |-> IdAt(1),
           phone_number |-> None, mention |-> None] :
        m \in OtherAuthors \cup KeyOneAuthors}
    \cup {[op |-> "author", message_data |-> m,
           date |-> ExtractMessageDate(AbsentDate), id |-> IdAt(NoDate),
           phone_number |-> None, mention |-> None] : m \in KeyOneAuthors}
    \cup {[op |-> "author", message_data |-> ObjAuthor([id |-> DeletedAccount]),
           date |-> 0 - 1, id |-> IdAt(0 - 1),
           phone_number |-> None, mention |-> None]}
    \cup {[op |-> "author", message_data |-> StrAuthor("Ann Lee", "user1"),
           date |-> x[1], id |-> x[2], phone_number |-> x[3], mention |-> x[4]] :
        x \in {<<1, NoId, None, None>>, <<NoDate, NoId, "+100", None>>,
               <<NoDate, NoId, None, "@alice">>}}

Handles == {"alice", "bob_smith"}

MentionObs == {[op |-> "mention", username |-> h] : h \in Handles}

ScanMentionObs == {[op |-> "scan_mention", username |-> h] : h \in Handles}

TextMentionObs ==
    {[op |-> "text_mention", user_data |-> ud] :
        ud \in {x \in UserObjects : "username" \notin DOMAIN x \/ x.username = "alice"}
               \cup {EmptyDict}}

Emojis == {"", "thumb", "fire"}

ReactionObs ==
    {[op |-> "reaction", message_data |-> StrAuthor("Ann Lee", "user1"),
      date |-> d, emoji |-> e] : d \in ReactionTimes \cap NaiveTimes, e \in Emojis}
    \cup {[op |-> "reaction", message_data |-> StrAuthor("Ann Lee", "user1"),
           date |-> d, emoji |-> "fire"] : d \in ReactionTimes \ NaiveTimes}
    \cup {[op |-> "reaction", message_data |-> m, date |-> 1, emoji |-> "thumb"] :
        m \in {StrAuthor("News", "channel5"), ObjAuthor([id |-> DeletedAccount]),
               [from |-> [type |-> "other"], from_id |-> "user1"]}}
    \cup {[op |-> "reaction", message_data |-> ObjAuthor([id |-> DeletedAccount]),
           date |-> 0 - 1, emoji |-> "fire"]}

\* HTML dates are parsed by patterns without an offset: always naive
HtmlAuthorObs ==
    {[op |-> "html_author", full_name |-> n, date |-> d] :
        n \in {"alice", "Ann Lee"}, d \in HtmlTimes}
    \cup {[op |-> "html_author", full_name |-> "", date |-> 1]}

HtmlMentionObs == {[op |-> "html_mention", username |-> h] : h \in Handles}

\* records of a JSON file that do not have the expected shape
MalformedObs ==
    {[op |-> "malformed", shape |-> x] :
        x \in {"message is not an object", "reaction is not an object",
               "entity is not an object"}}

-----------------------------------------------------------------------------
(* The mention scanners *)

\* the bounds of the pattern @([a-zA-Z0-9_]{5,32})
MinHandle == 5
MaxHandle == 32

\* a text is a sequence of characters; the characters of the model
WordChars == {"a", "b"}

\* how many characters of [a-zA-Z0-9_] follow each other from position i on
RECURSIVE RunLen(_, _)
RunLen(text, i) ==
    IF i > Len(text) \/ text[i] \notin WordChars THEN 0
    ELSE 1 + RunLen(text, i + 1)

\* re.findall(pattern, text): the leftmost match, as long as the pattern
\* allows, then on from the end of the match
RECURSIVE FindAllFrom(_, _)
FindAllFrom(text, i) ==
    IF i > Len(text) THEN <<>>
    ELSE IF text[i] = "@" /\ RunLen(text, i + 1) >= MinHandle
    THEN LET n == IF RunLen(text, i + 1) > MaxHandle THEN MaxHandle
                  ELSE RunLen(text, i + 1)
         IN  <<SubSeq(text, i + 1, i + n)>> \o FindAllFrom(text, i + n + 1)
    ELSE FindAllFrom(text, i + 1)

FindAll(text) == FindAllFrom(text, 1)

InSeq(x, seq) == \E i \in 1..Len(seq) : seq[i] = x

\* faulty variant: every match is kept
AppendNew_KeepAll(mentioned, matches) == mentioned \o matches

\* the loop "for username in matches: if username not in mentioned: append"
RECURSIVE AppendNew(_, _)
AppendNew(mentioned, matches) ==
    IF matches = <<>> THEN mentioned
    ELSE AppendNew(IF InSeq(Head(matches), mentioned) THEN mentioned
                   ELSE Append(mentioned, Head(matches)), Tail(matches))

\* base_parser.py lines 137-153; absent is text = None
ExtractMentionedUsers(text, absent) ==
    IF absent \/ text = <<>> THEN <<>> ELSE AppendNew(<<>>, FindAll(text))

\* json_parser.py lines 169-185
ExtractMentionedUsernamesFromText(text, absent) ==
    IF absent \/ text = <<>> THEN <<>> ELSE AppendNew(<<>>, FindAll(text))

\* the texts of the model: up to MaxTokens pieces put together
Tokens ==
    { <<"@">>, <<" ">>, <<"a", "a", "a", "a">>, <<"b", "a", "a", "a", "a">>,
      [i \in 1..16 |-> "a"] }

RECURSIVE TextsUpTo(_)
TextsUpTo(n) ==
    IF n = 0 THEN {<<>>}
    ELSE LET shorter == TextsUpTo(n - 1)
         IN  shorter \cup {t \o tok : t \in shorter, tok \in Tokens}

NoScan == [text |-> <<>>, absent |-> TRUE, base |-> <<>>, json |-> <<>>,
           base_done |-> FALSE, json_done |-> FALSE]

-----------------------------------------------------------------------------
(* process_files, one step at a time *)

\* no handler of the bot has been called
NoCall == [handler |-> "none", user_id |-> 0, outcome |-> "", sent |-> TRUE, processed |-> 0]

\* no call of process_files is followed as a whole
NoBatch ==
    [phase |-> "none", paths |-> <<>>, extracted_files |-> <<>>, next |-> 0,
     result |-> {}, reply |-> "", calls |-> 0]

InitCommonButScan ==
    /\ batch = NoBatch
    /\ user_files = EmptyDict
    /\ call = NoCall
    /\ parser = NewParser("none")
    /\ pc = "idle"
    /\ proc_users = EmptyDict
    /\ nobs = 0
    /\ log = <<>>
    /\ fileLog = <<>>

InitCommon == InitCommonButScan /\ scan = NoScan

Init == InitCommon /\ nfiles = 0 /\ logging = "off"

\* the last file of a batch whose earlier files gave nothing, with the
\* observations recorded
InitLog == InitCommon /\ nfiles = MaxFiles - 1 /\ logging = "obs"

\* a batch with the roster of every file recorded
InitFiles == InitCommon /\ nfiles = 0 /\ logging = "files"

\* faulty variant: the parser of the next file starts from the running roster
StartFile_SharedRoster(kind) ==
    /\ pc = "idle"
    /\ nfiles < MaxFiles
    /\ parser' = [NewParser(kind) EXCEPT !.users = proc_users]
    /\ pc' = "parsing"
    /\ nfiles' = nfiles + 1
    /\ log' = <<>>
    /\ UNCHANGED <<proc_users, nobs, logging, fileLog, scan, batch, user_files, call>>

\* user_processor.py lines 48-54: the next file gets a fresh parser
StartFile(kind) ==
    /\ pc = "idle"
    /\ nfiles < MaxFiles
    /\ parser' = NewParser(kind)
    /\ pc' = "parsing"
    /\ nfiles' = nfiles + 1
    /\ log' = <<>>
    /\ UNCHANGED <<proc_users, nobs, logging, fileLog, scan, batch, user_files, call>>

\* one record of the file reaches the parser
Step(kind, o) ==
    /\ pc = "parsing"
    /\ parser.kind = kind
    /\ nobs < MaxObs
    /\ LET r == Observe(parser, o)
       IN  /\ parser' = r.st
           /\ pc' = IF r.raised THEN "aborted" ELSE "parsing"
    /\ nobs' = nobs + 1
    /\ log' = IF logging = "obs" THEN Append(log, o) ELSE log
    /\ UNCHANGED <<proc_users, nfiles, logging, fileLog, scan, batch, user_files, call>>

JsonAuthor == \E o \in AuthorObs : Step("json", o)
JsonMention == \E o \in MentionObs : Step("json", o)
JsonScanMention == \E o \in ScanMentionObs : Step("json", o)
JsonTextMention == \E o \in TextMentionObs : Step("json", o)
JsonReaction == \E o \in ReactionObs : Step("json", o)
JsonMalformed == \E o \in MalformedObs : Step("json", o)
HtmlAuthor == \E o \in HtmlAuthorObs : Step("html", o)
HtmlMention == \E o \in HtmlMentionObs : Step("html", o)

\* user_processor.py lines 60-65: parse() returns and its users are merged
FinishFile ==
    /\ pc \in {"parsing", "aborted"}
    /\ LET users == ParseResult(parser, pc = "aborted")
       IN  /\ proc_users' = IF users # {} THEN MergeUsers(proc_users, users)
                            ELSE proc_users
           /\ fileLog' = IF logging = "files" THEN Append(fileLog, users) ELSE fileLog
    /\ parser' = NewParser("none")
    /\ pc' = "idle"
    /\ UNCHANGED <<nfiles, nobs, logging, log, scan, batch, user_files, call>>

Next ==
    \/ StartFile("json")
    \/ StartFile("html")
    \/ JsonAuthor
    \/ JsonMention
    \/ JsonScanMention
    \/ JsonTextMention
    \/ JsonReaction
    \/ JsonMalformed
    \/ HtmlAuthor
    \/ HtmlMention
    \/ FinishFile

Spec == Init /\ [][Next]_vars

SpecLog == InitLog /\ [][Next]_vars

SpecFiles == InitFiles /\ [][Next]_vars

\* a text given to the two scanners
InitScan ==
    /\ InitCommonButScan /\ nfiles = 0 /\ logging = "off"
    /\ \E text \in TextsUpTo(MaxTokens), absent \in BOOLEAN :
          /\ (absent => text = <<>>)
          /\ scan = [NoScan EXCEPT !.text = text, !.absent = absent]

ScanBase ==
    /\ ~scan.base_done
    /\ scan' = [scan EXCEPT !.base = ExtractMentionedUsers(scan.text, scan.absent),
                            !.base_done = TRUE]
    /\ UNCHANGED <<parser, pc, proc_users, nfiles, nobs, logging, log, fileLog, batch, user_files, call>>

ScanJson ==
    /\ ~scan.json_done
    /\ scan' = [scan EXCEPT
                   !.json = ExtractMentionedUsernamesFromText(scan.text, scan.absent),
                   !.json_done = TRUE]
    /\ UNCHANGED <<parser, pc, proc_users, nfiles, nobs, logging, log, fileLog, batch, user_files, call>>

NextScan == ScanBase \/ ScanJson

SpecScan == InitScan /\ [][NextScan]_vars

-----------------------------------------------------------------------------
(* A file replayed: parse() over a sequence of records *)

RECURSIVE RunFrom(_, _)
RunFrom(r, seq) ==
    IF seq = <<>> \/ r.raised THEN r
    ELSE RunFrom(Observe(r.st, Head(seq)), Tail(seq))

\* what parse() returns for a file of the given kind made of the records seq
ParseOf(kind, seq) ==
    LET r == RunFrom([st |-> NewParser(kind), raised |-> FALSE], seq)
    IN  ParseResult(r.st, r.raised)

Permuted(seq, p) == [i \in 1..Len(seq) |-> seq[p[i]]]

\* the key an observation is resolved under (NoId: it gives no user)
KeyOf(o) ==
    LET r == Observe(NewParser("none"), o).st.users
    IN  IF DOMAIN r = {} THEN NoId ELSE CHOOSE k \in DOMAIN r : TRUE

\* the roster parse() would return if the file ended now
CurrentRoster == ParseResult(parser, pc = "aborted")

-----------------------------------------------------------------------------
(* C1: order independence inside one file *)

KeysAndMentionOnly(roster) == {<<u.user_id, u.is_mention_only>> : u \in roster}

-----------------------------------------------------------------------------
(* C2: order independence across files *)

\* user_processor.py lines 48-73 over the rosters the parsers returned
RECURSIVE MergeFiles(_, _)
MergeFiles(users, rosters) ==
    IF rosters = <<>> THEN users
    ELSE MergeFiles(IF Head(rosters) # {} THEN MergeUsers(users, Head(rosters))
                    ELSE users, Tail(rosters))

BatchDone == logging = "files" /\ pc = "idle"

-----------------------------------------------------------------------------
(* C3, C4: deletion *)

\* the record carries the tombstone id in its embedded author object
IsDeletion(o) ==
    \/ /\ o.op \in {"author", "reaction"}
       /\ o.message_data.from.type = "dict"
       /\ Get(o.message_data.from.value, "id", 0) = DeletedAccount
    \/ o.op = "text_mention" /\ Get(o.user_data, "id", 0) = DeletedAccount

\* the key a deletion observation is made under (base_parser.py line 80)
DeletedKey == UserFromObject([id |-> DeletedAccount]).user_id

\* C3 (as stated): once the parser has seen a deletion observation (here as
\* the first observation of the file), the key of that observation is not in
\* the roster, whatever is observed afterwards.
C3_DeletedKeyStaysOut ==
    (logging = "obs" /\ pc # "idle" /\ Len(log) > 0 /\ IsDeletion(log[1]))
        => DeletedKey \notin {u.user_id : u \in CurrentRoster}

\* C4: no identity stored by a parser or by the aggregator has the deletion
\* flag set, in any state.
C4_NoDeletedIdentityStored ==
    /\ \A k \in DOMAIN parser.users : ~parser.users[k].is_deleted
    /\ \A k \in DOMAIN proc_users : ~proc_users[k].is_deleted

\* a file with a deletion observation and other observations has been merged
C4_Witness ==
    /\ logging = "obs" /\ pc = "idle" /\ Len(log) = 3
    /\ IsDeletion(log[2]) /\ log[2].op = "author"
    /\ Cardinality(DOMAIN proc_users) = 2

-----------------------------------------------------------------------------
(* C5: one identity per key *)

KeyedByOwnId(users) == \A k \in DOMAIN users : users[k].user_id = k

OnePerKey(roster) == \A u, v \in roster : u.user_id = v.user_id => u = v

\* C5: the roster of a parser and the roster of the aggregator hold at most one
\* identity per key, each stored under its own user_id.
C5_OneIdentityPerKey ==
    /\ KeyedByOwnId(parser.users) /\ KeyedByOwnId(proc_users)
    /\ OnePerKey(RosterOf(GetUniqueUsers(parser)))
    /\ OnePerKey(RosterOf([users |-> proc_users]))

\* two files resolved the same key differently and both were merged
C5_Witness ==
    /\ BatchDone /\ Len(fileLog) = 2
    /\ \E u \in fileLog[1], v \in fileLog[2] :
          /\ u.user_id = v.user_id /\ u # v
          /\ Truthy(u.username) /\ Truthy(v.username) /\ u.username # v.username
          /\ proc_users[u.user_id].username = v.username
    /\ Cardinality(DOMAIN proc_users) = 2

-----------------------------------------------------------------------------
(* C6: monotonic timestamps *)

\* a timestamp that is set stays set and moves only to an earlier value
NeverLater(old, new) ==
    old # NoDate => (new # NoDate /\ Comparable(old, new) /\ new <= old)

\* C6: within one parser, the earliest-message and earliest-reaction
\* timestamps of an identity, once set, never increase and never become unset.
C6_TimestampsNeverIncrease ==
    [][(pc = "parsing" /\ pc' # "idle") =>
          \A k \in DOMAIN parser.users :
              /\ k \in DOMAIN parser'.users
              /\ NeverLater(parser.users[k].first_message_date,
                            parser'.users[k].first_message_date)
              /\ NeverLater(parser.users[k].first_reaction_date,
                            parser'.users[k].first_reaction_date)]_vars

\* a later message and a later reaction were seen first, then earlier ones
C6_Witness ==
    /\ logging = "obs" /\ pc = "parsing" /\ Len(log) = 3
    /\ log[1].op = "author" /\ log[1].date = 2
    /\ log[2].op = "author" /\ log[2].date = 1
    /\ log[3].op = "reaction" /\ log[3].date = 1
    /\ KeyOf(log[1]) = 1 /\ KeyOf(log[2]) = 1 /\ KeyOf(log[3]) = 1
    /\ parser.users[1].first_message_date = 1
    /\ parser.users[1].first_reaction_date = 1

-----------------------------------------------------------------------------
(* C7: earliest reaction *)

\* the symbol stored for an identity is the symbol e of a reaction
SameSymbol(stored, e) == IF Truthy(e) THEN stored = e ELSE ~Truthy(stored)

\* C7 (as stated): after two reactions of one key at different times, the
\* identity has the earlier timestamp and the symbol of the earlier reaction,
\* also when that symbol is empty.
C7_EarliestReactionAndItsSymbol ==
    (/\ logging = "obs" /\ pc = "parsing" /\ Len(log) = 2
     /\ log[1].op = "reaction" /\ log[2].op = "reaction"
     /\ KeyOf(log[1]) # NoId /\ KeyOf(log[1]) = KeyOf(log[2])
     /\ log[1].date # NoDate /\ log[2].date # NoDate
     /\ Comparable(log[1].date, log[2].date) /\ log[1].date # log[2].date)
    => LET won == IF log[1].date < log[2].date THEN log[1] ELSE log[2]
           u == parser.users[KeyOf(log[1])]
       IN  /\ u.first_reaction_date = won.date
           /\ SameSymbol(u.first_reaction_emoji, won.emoji)

-----------------------------------------------------------------------------
(* C8: earliest message *)

SetMin(S) == CHOOSE x \in S : \A y \in S : x <= y

\* the parseable dates of the messages authored under key k in the file
AuthoredDates(k) ==
    {log[i].date : i \in {j \in 1..Len(log) :
        /\ log[j].op \in {"author", "html_author"}
        /\ log[j].date # NoDate
        /\ KeyOf(log[j]) = k}}

MutuallyComparable(S) == \A a, b \in S : Comparable(a, b)

\* the keys other than 0 under which the file has authored messages with a
\* parseable date, all of them comparable (0 is the key of a record without id)
DatedAuthorKeys ==
    {k \in {KeyOf(log[i]) : i \in 1..Len(log)} :
        /\ k # NoId /\ k # 0
        /\ AuthoredDates(k) # {}
        /\ MutuallyComparable(AuthoredDates(k))}

\* C8 (as stated, key 0 left aside): in the roster of a resolved file, every
\* key that authored a message with a parseable date has an identity whose
\* earliest-message timestamp is the minimum of those dates.
C8_EarliestMessageIsMinimum ==
    (logging = "obs" /\ pc # "idle") =>
        \A k \in DatedAuthorKeys :
            \E u \in CurrentRoster :
                /\ u.user_id = k
                /\ u.first_message_date = SetMin(AuthoredDates(k))

-----------------------------------------------------------------------------
(* C9, C10: the mention-only flag *)

\* the observation carries is_mention_only = True (html_parser.py line 55)
IsMentionOnlyObs(o) == o.op = "html_mention"

IsAuthoredObs(o) == o.op \in {"author", "html_author"}

\* C9: an identity created by a mention-only observation is mention-only; an
\* authored message under its key clears the flag; a cleared flag stays
\* cleared whatever is observed later in that parser.
C9_MentionOnlyClearedForGood ==
    [][(logging = "obs" /\ pc = "parsing" /\ pc' # "idle") =>
          LET o == log'[Len(log')]
              k == KeyOf(o)
          IN  /\ (IsMentionOnlyObs(o) /\ k \notin DOMAIN parser.users)
                    => parser'.users[k].is_mention_only
              /\ (IsAuthoredObs(o) /\ k \in DOMAIN parser.users)
                    => ~parser'.users[k].is_mention_only
              /\ \A j \in DOMAIN parser.users :
                    ~parser.users[j].is_mention_only
                        => ~parser'.users[j].is_mention_only]_vars

\* mentioned, then seen as an author, then mentioned again: not mention-only
C9_Witness ==
    /\ logging = "obs" /\ pc = "parsing" /\ Len(log) = 3
    /\ IsMentionOnlyObs(log[1]) /\ IsAuthoredObs(log[2]) /\ IsMentionOnlyObs(log[3])
    /\ KeyOf(log[1]) = KeyOf(log[2]) /\ KeyOf(log[3]) = KeyOf(log[2])
    /\ ~parser.users[KeyOf(log[1])].is_mention_only

IsMentionObs(o) == o.op \in {"mention", "scan_mention", "text_mention", "html_mention"}

\* C10 (as stated): in the roster of a resolved file of either format, an
\* identity observed only through mentions is mention-only.
C10_OnlyMentionedIsMentionOnly ==
    (logging = "obs" /\ pc # "idle") =>
        \A u \in CurrentRoster :
            (\A i \in 1..Len(log) : KeyOf(log[i]) = u.user_id => IsMentionObs(log[i]))
                => u.is_mention_only

-----------------------------------------------------------------------------
(* C11: idempotence *)

\* the observation the parser made last
LastObs == log[Len(log)]

\* C11: observing once more the observation just made leaves the parser as
\* it is (and so the identity of its key), and raises nothing.
C11_ObservingTwiceIsObservingOnce ==
    (logging = "obs" /\ pc = "parsing" /\ Len(log) > 0) =>
        /\ Observe(parser, LastObs).st = parser
        /\ ~Observe(parser, LastObs).raised
        /\ RosterOf(GetUniqueUsers(Observe(parser, LastObs).st)) = CurrentRoster

\* the same dated message of a known key was observed twice in a row, after
\* a later message of that key
C11_Witness ==
    /\ logging = "obs" /\ pc = "parsing" /\ Len(log) = 3
    /\ log[2] = log[3] /\ log[1] # log[2]
    /\ log[1].op = "author" /\ log[2].op = "author"
    /\ KeyOf(log[1]) = 1 /\ KeyOf(log[2]) = 1
    /\ log[1].date = 2 /\ log[2].date = 1
    /\ parser.users[1].first_message_date = 1

-----------------------------------------------------------------------------
(* C12: the handle is the most recent one *)

\* the identity an observation carries: what a fresh parser stores for it
IdentityOf(o) == Observe(NewParser("none"), o).st.users[KeyOf(o)]

\* the handle an identity has after an identity of its key that carries the
\* handle h was merged into it
HandleAfter(users, k, h, users2) ==
    /\ k \in DOMAIN users2
    /\ IF Truthy(h) THEN users2[k].username = h
       ELSE k \in DOMAIN users => users2[k].username = users[k].username

\* C12 (as stated): an observation that supplies a handle makes it the handle
\* of the identity of its key, an observation without a handle leaves the
\* stored handle as it is, and so does every merge of a file's identities
\* into the roster of the aggregator.
C12_HandleIsMostRecent ==
    [][/\ (logging = "obs" /\ pc = "parsing" /\ pc' = "parsing"
             /\ KeyOf(log'[Len(log')]) # NoId
             /\ ~IsDeletion(log'[Len(log')]))
          => HandleAfter(parser.users, KeyOf(log'[Len(log')]),
                         IdentityOf(log'[Len(log')]).username, parser'.users)
       /\ (logging = "obs" /\ pc = "parsing" /\ pc' = "idle")
          => \A u \in CurrentRoster :
                HandleAfter(proc_users, u.user_id, u.username, proc_users')]_vars

-----------------------------------------------------------------------------
(* C13: fields that keep their first non-empty value *)

FirstNonEmptyFields == {"first_name", "last_name", "phone_number", "bio", "mention"}

\* a populated field is kept
KeepsPopulated(users, users2) ==
    \A k \in DOMAIN users : \A f \in FirstNonEmptyFields :
        Truthy(users[k][f]) => (k \in DOMAIN users2 /\ users2[k][f] = users[k][f])

\* an empty field of the key of identity u takes the non-empty value u carries
FillsEmpty(users, u, users2) ==
    \A f \in FirstNonEmptyFields :
        (Truthy(u[f]) /\ (u.user_id \in DOMAIN users => ~Truthy(users[u.user_id][f])))
            => (u.user_id \in DOMAIN users2 /\ users2[u.user_id][f] = u[f])

\* C13 (as stated): in a parser a populated name part, phone, profile text or
\* mention string is never changed by a later observation, and an empty one
\* is filled by the first observation of the key that carries a value.
C13_FirstNonEmptyWins ==
    [][(logging = "obs" /\ pc = "parsing" /\ pc' = "parsing")
          => /\ KeepsPopulated(parser.users, parser'.users)
             /\ (KeyOf(log'[Len(log')]) # NoId /\ ~IsDeletion(log'[Len(log')]))
                   => FillsEmpty(parser.users, IdentityOf(log'[Len(log')]),
                                 parser'.users)]_vars

-----------------------------------------------------------------------------
(* C14: the aggregator against one parser fed with the files' identities *)

\* an identity of a file's roster observed by a parser: its timestamps are
\* recorded as _extract_user_from_message and _save_first_reaction record
\* them, then _add_user merges it
ReplayIdentity(st, u) ==
    LET s1 == SaveFirstMessage(st, u.user_id, u.first_message_date,
                               u.first_message_id).st
        s2 == SaveFirstReaction(s1, u.user_id, u.first_reaction_date,
                                u.first_reaction_emoji).st
    IN  AddUser(s2, u)

RECURSIVE ReplayRoster(_, _)
ReplayRoster(st, roster) ==
    IF roster = {} THEN st
    ELSE LET u == CHOOSE x \in roster : TRUE
         IN  ReplayRoster(ReplayIdentity(st, u), roster \ {u})

RECURSIVE ReplayFiles(_, _)
ReplayFiles(st, rosters) ==
    IF rosters = <<>> THEN st
    ELSE ReplayFiles(ReplayRoster(st, Head(rosters)), Tail(rosters))

\* the fields of an identity that the merge policy of _add_user rules
PolicyFields(u) ==
    [user_id |-> u.user_id, username |-> u.username,
     first_name |-> u.first_name, last_name |-> u.last_name,
     phone_number |-> u.phone_number, bio |-> u.bio, mention |-> u.mention,
     is_mention_only |-> u.is_mention_only,
     first_message_date |-> u.first_message_date,
     first_reaction_date |-> u.first_reaction_date]

\* C14 (as stated): the roster process_files returns for a batch is, on the
\* fields ruled by the merge policy, the roster of one parser that observed
\* the identities of every file in file order.
C14_AggregatorMergesAsParser ==
    BatchDone =>
        {PolicyFields(u) : u \in RosterOf([users |-> proc_users])}
            = {PolicyFields(u) :
                 u \in RosterOf(GetUniqueUsers(ReplayFiles(NewParser("none"), fileLog)))}

-----------------------------------------------------------------------------
(* C15: earliest timestamps across files *)

\* C15 (as stated): for a key resolved in two files of a batch with
\* comparable earliest-message (earliest-reaction) timestamps, the identity
\* process_files returns has the minimum of them, and the reaction symbol of
\* the file that has the minimum.
C15_MinimumAcrossFiles ==
    (BatchDone /\ Len(fileLog) = 2) =>
        \A u \in fileLog[1], v \in fileLog[2] :
            u.user_id = v.user_id =>
                LET r == proc_users[u.user_id]
                IN  /\ (/\ u.first_message_date # NoDate
                        /\ v.first_message_date # NoDate
                        /\ Comparable(u.first_message_date, v.first_message_date))
                       => r.first_message_date
                            = SetMin({u.first_message_date, v.first_message_date})
                    /\ (/\ u.first_reaction_date # NoDate
                        /\ v.first_reaction_date # NoDate
                        /\ Comparable(u.first_reaction_date, v.first_reaction_date))
                       => \E w \in {u, v} :
                            /\ w.first_reaction_date
                                 = SetMin({u.first_reaction_date, v.first_reaction_date})
                            /\ r.first_reaction_date = w.first_reaction_date
                            /\ r.first_reaction_emoji = w.first_reaction_emoji

-----------------------------------------------------------------------------
(* C16, C17: the bot flag *)

\* the identities that are bots stay, and stay bots
BotsStayBots(users, users2) ==
    \A k \in DOMAIN users :
        users[k].is_bot => (k \in DOMAIN users2 /\ users2[k].is_bot)

\* C16: a bot flag that is set in a parser or in the roster of the
\* aggregator is never cleared by a later observation or file merge.
C16_BotFlagNeverCleared ==
    [][/\ (pc = "parsing" /\ pc' # "idle") => BotsStayBots(parser.users, parser'.users)
       /\ BotsStayBots(proc_users, proc_users')]_vars

\* a file resolving key 1 as a bot was merged before a file resolving it as
\* not a bot
C16_Witness ==
    /\ BatchDone /\ Len(fileLog) = 2
    /\ \E u \in fileLog[1], v \in fileLog[2] :
          /\ u.user_id = v.user_id /\ u.is_bot /\ ~v.is_bot
          /\ proc_users[u.user_id].is_bot

\* the observations of the file that are resolved under key k
ObservationsOf(k) ==
    {i \in 1..Len(log) : KeyOf(log[i]) = k /\ ~IsDeletion(log[i])}

\* C17 (as stated): the bot flag of an identity is true exactly when one of
\* the observations of its key carried bot = true.
C17_BotIffSomeObservationIsBot ==
    (logging = "obs" /\ pc = "parsing") =>
        \A u \in CurrentRoster :
            u.is_bot <=> \E i \in ObservationsOf(u.user_id) : IdentityOf(log[i]).is_bot

-----------------------------------------------------------------------------
(* C18: channels *)

\* a message or reaction record written by a channel: the author is a
\* display name and the secondary identifier starts with "channel"
IsChannelRecord(o) ==
    /\ o.op \in {"author", "reaction"}
    /\ o.message_data.from.type = "str"
    /\ o.message_data.from_id # None
    /\ StartsWith(o.message_data.from_id, "channel")

-----------------------------------------------------------------------------
(* C19: how the key is derived *)

\* a message whose author is a display name, of a participant (not a channel)
IsNamedAuthor(o) ==
    \/ o.op = "html_author" /\ o.full_name # ""
    \/ /\ o.op = "author" /\ o.message_data.from.type = "str"
       /\ ~IsChannelRecord(o)

\* the identifiers of the form "user<digits>"
UserDigits == {"user1", "user2", "user1001"}

\* the key the record of a named author is to be resolved under
ExpectedKey(o) ==
    IF o.op = "html_author" THEN Hash(o.full_name)
    ELSE LET from_id == o.message_data.from_id
         IN  IF from_id = None THEN Hash(o.message_data.from.value)
             ELSE IF from_id \in UserDigits THEN IntOfUserId(from_id)
             ELSE Hash(from_id)

\* C19 (as stated, channels left to C18): a named author is resolved under
\* the integer of "user<digits>", else under the hash of the identifier, else
\* (no identifier, or markup) under the hash of the display name, and the
\* records of one key are merged into the one identity of that key.
C19_KeyComesFromIdentifier ==
    (logging = "obs" /\ pc = "parsing") =>
        \A i \in 1..Len(log) :
            IsNamedAuthor(log[i]) =>
                /\ KeyOf(log[i]) = ExpectedKey(log[i])
                /\ ExpectedKey(log[i]) \in DOMAIN parser.users

-----------------------------------------------------------------------------
(* C20: synthesized keys and authoritative ids *)

\* the record is resolved under an id read from the file
IsAuthoritative(o) ==
    \/ /\ o.op \in {"author", "reaction"}
       /\ \/ /\ o.message_data.from.type = "str"
             /\ o.message_data.from_id \in UserDigits
          \/ /\ o.message_data.from.type = "dict"
             /\ "id" \in DOMAIN o.message_data.from.value
    \/ o.op = "text_mention" /\ "id" \in DOMAIN o.user_data

\* the record is resolved under the hash() of a name, handle or identifier
IsSynthesized(o) ==
    \/ o.op \in {"mention", "html_mention"}
    \/ o.op = "html_author" /\ o.full_name # ""
    \/ /\ o.op \in {"author", "reaction"}
       /\ o.message_data.from.type = "str"
       /\ \/ o.message_data.from_id = None
          \/ /\ ~StartsWith(o.message_data.from_id, "user")
             /\ ~StartsWith(o.message_data.from_id, "channel")

\* C20 (as stated): a record resolved under a synthesized key and a record
\* resolved under an authoritative id are never resolved under the same key,
\* so their identities are never merged.
C20_SynthesizedNeverMeetsAuthoritative ==
    (logging = "obs" /\ pc = "parsing") =>
        \A i, j \in 1..Len(log) :
            (/\ IsAuthoritative(log[i]) /\ KeyOf(log[i]) # NoId
             /\ IsSynthesized(log[j]) /\ KeyOf(log[j]) # NoId)
                => KeyOf(log[i]) # KeyOf(log[j])

-----------------------------------------------------------------------------
(* C21: the mention scanners *)

\* handle h stands in the text right after an "@"
StandsAfterAt(h, text) ==
    \E i \in 1..Len(text) :
        /\ text[i] = "@"
        /\ i + Len(h) <= Len(text)
        /\ SubSeq(text, i + 1, i + Len(h)) = h

\* the place of the first match equal to h
FirstMatch(h, matches) == CHOOSE i \in 1..Len(matches) :
    matches[i] = h /\ \A j \in 1..(i - 1) : matches[j] # h

\* C21: the scanner returns every handle the pattern matches, each once, in
\* the order of the first match, and nothing else; nothing for an empty or
\* absent text; the scanner of the JSON parser returns the same.
C21_ScannerReturnsEachHandleOnce ==
    LET r == scan.base
        matches == FindAll(scan.text)
    IN  /\ scan.base_done =>
              /\ \A a, b \in 1..Len(r) : r[a] = r[b] => a = b
              /\ \A a \in 1..Len(r) :
                    /\ Len(r[a]) \in MinHandle..MaxHandle
                    /\ \A c \in 1..Len(r[a]) : r[a][c] \in WordChars
                    /\ StandsAfterAt(r[a], scan.text)
              /\ {r[a] : a \in 1..Len(r)} = {matches[i] : i \in 1..Len(matches)}
              /\ \A a, b \in 1..Len(r) :
                    a < b => FirstMatch(r[a], matches) < FirstMatch(r[b], matches)
              /\ (scan.absent \/ scan.text = <<>>) => r = <<>>
        /\ (scan.base_done /\ scan.json_done) => scan.json = scan.base

\* a text with one handle twice, around another handle
C21_Witness ==
    /\ scan.base_done /\ scan.json_done
    /\ Len(FindAll(scan.text)) = 3
    /\ FindAll(scan.text)[1] = FindAll(scan.text)[3]
    /\ Len(scan.base) = 2
    /\ scan.base[1] = FindAll(scan.text)[1]


-----------------------------------------------------------------------------
(* C22: reactions and mentions carry no message correlation *)

\* the fields of the earliest message and of the earliest reaction of a key,
\* as the parser holds them (its two maps and the stored identity)
MessageDataOf(st, k) ==
    << Get(st.user_first_message_date, k, NoDate),
       Get(st.user_first_message_id, k, NoId),
       IF k \in DOMAIN st.users THEN st.users[k].first_message_date ELSE NoDate,
       IF k \in DOMAIN st.users THEN st.users[k].first_message_id ELSE NoId >>

ReactionDataOf(st, k) ==
    << Get(st.user_first_reaction_date, k, NoDate),
       Get(st.user_first_reaction_emoji, k, None),
       IF k \in DOMAIN st.users THEN st.users[k].first_reaction_date ELSE NoDate,
       IF k \in DOMAIN st.users THEN st.users[k].first_reaction_emoji ELSE None >>

KeysOf(st) ==
    DOMAIN st.users \cup DOMAIN st.user_first_message_date
    \cup DOMAIN st.user_first_message_id \cup DOMAIN st.user_first_reaction_date
    \cup DOMAIN st.user_first_reaction_emoji

\* no record of seq resolved under key k is an authored message
NeverAuthored(seq, k) ==
    \A i \in 1..Len(seq) : KeyOf(seq[i]) = k => ~IsAuthoredObs(seq[i])

\* C22: a reaction or a mention (entity, text-mention, free text) leaves the
\* earliest-message timestamp and id of every key as they were; a key seen
\* only as a reactor or through mentions has both unset in the roster; a
\* reaction changes earliest-reaction data under the key of the reactor only.
C22_NoMessageCorrelation ==
    [][(logging = "obs" /\ pc = "parsing" /\ pc' # "idle") =>
          LET o == log'[Len(log')]
          IN  /\ ~IsAuthoredObs(o) =>
                    \A k \in KeysOf(parser) \cup KeysOf(parser') :
                        MessageDataOf(parser', k) = MessageDataOf(parser, k)
              /\ o.op = "reaction" =>
                    \A k \in (KeysOf(parser) \cup KeysOf(parser')) \ {KeyOf(o)} :
                        ReactionDataOf(parser', k) = ReactionDataOf(parser, k)
              /\ \A u \in ParseResult(parser', pc' = "aborted") :
                    NeverAuthored(log', u.user_id)
                        => /\ u.first_message_date = NoDate
                           /\ u.first_message_id = NoId]_vars

\* key 1 wrote a dated message, a handle was mentioned, then key 1 reacted:
\* the reaction is under key 1, the mentioned key has no message data
C22_Witness ==
    /\ logging = "obs" /\ pc = "parsing" /\ Len(log) = 3
    /\ log[1].op = "author" /\ KeyOf(log[1]) = 1 /\ log[1].date = 2
    /\ log[2].op = "mention" /\ KeyOf(log[2]) = Hash("alice")
    /\ log[3].op = "reaction" /\ KeyOf(log[3]) = 1 /\ log[3].date = 1
    /\ MessageDataOf(parser, 1) = <<2, IdAt(2), 2, IdAt(2)>>
    /\ ReactionDataOf(parser, 1)[1] = 1 /\ ReactionDataOf(parser, 1)[3] = 1
    /\ MessageDataOf(parser, Hash("alice")) = <<NoDate, NoId, NoDate, NoId>>
    /\ ReactionDataOf(parser, Hash("alice")) = <<NoDate, None, NoDate, None>>

-----------------------------------------------------------------------------
(* C23: a missing timestamp is tolerated *)

\* the raw value is written in none of the patterns and is not a number
MatchesNoPattern(raw, formats) ==
    ~(raw.kind = "str" /\ raw.fmt \in formats) /\ raw.kind # "number"

\* the normalizers give no value for every raw date that matches no pattern
NoValueForUnknownPatterns ==
    /\ \A raw \in RawJsonDates :
          MatchesNoPattern(raw, JsonNaiveFormats \cup JsonAwareFormats)
              => /\ ExtractMessageDate(raw) = NoDate
                 /\ ExtractReactionDate(raw) = NoDate
    /\ \A raw \in RawHtmlDates :
          MatchesNoPattern(raw, HtmlFormats) \/ raw.kind = "number"
              => ExtractMessageDateFromHtml(raw) = NoDate

IsUndated(o) == o.op \in {"author", "reaction", "html_author"} /\ o.date = NoDate

\* C23: a date that matches no pattern, or is absent, is normalized to no
\* value; a message or reaction with no date raises nothing, its author or
\* reactor is in the parser's users afterwards, and the earliest-message and
\* earliest-reaction values of every key are as they were.
C23_MissingTimestampTolerated ==
    [][(logging = "obs" /\ pc = "parsing" /\ pc' # "idle"
        /\ IsUndated(log'[Len(log')])) =>
          LET o == log'[Len(log')]
          IN  /\ NoValueForUnknownPatterns
              /\ pc' = "parsing"
              /\ KeyOf(o) # NoId => KeyOf(o) \in DOMAIN parser'.users
              /\ \A k \in KeysOf(parser) \cup KeysOf(parser') :
                    /\ MessageDataOf(parser', k) = MessageDataOf(parser, k)
                    /\ ReactionDataOf(parser', k) = ReactionDataOf(parser, k)]_vars

\* an undated message adds key 1, a dated message of key 1 follows, then an
\* undated reaction of key 1: the message data is that of the dated message
C23_Witness ==
    /\ logging = "obs" /\ pc = "parsing" /\ Len(log) = 3
    /\ log[1].op = "author" /\ IsUndated(log[1]) /\ KeyOf(log[1]) = 1
    /\ log[2].op = "author" /\ log[2].date = 2 /\ KeyOf(log[2]) = 1
    /\ log[3].op = "reaction" /\ IsUndated(log[3]) /\ KeyOf(log[3]) = 1
    /\ Truthy(log[3].emoji)
    /\ MessageDataOf(parser, 1) = <<2, IdAt(2), 2, IdAt(2)>>
    /\ ReactionDataOf(parser, 1) = <<NoDate, None, NoDate, None>>

-----------------------------------------------------------------------------
(* C24: record-level resilience *)

IsMalformed(o) == o.op = "malformed"

\* C24 (as stated): when one record of a file does not have the expected
\* shape, the roster of the file still has every key that the other records
\* of the file contribute.
C24_MalformedRecordIsSkipped ==
    (/\ logging = "obs" /\ pc # "idle"
     /\ Cardinality({i \in 1..Len(log) : IsMalformed(log[i])}) = 1)
    => \A j \in 1..Len(log) :
          (~IsMalformed(log[j]) /\ KeyOf(log[j]) # NoId)
              => \E u \in CurrentRoster : u.user_id = KeyOf(log[j])

-----------------------------------------------------------------------------
(* C25: observing never fails and never rejects *)

\* C25 (as stated): whatever the parser holds, a record of the expected shape
\* is recorded without an error: the pass over the file goes on, the key of
\* the record is among the parser's users and the handle of the record is the
\* handle of its identity, also when the date of the record cannot be
\* ordered against the stored one.
C25_ObservingNeverFails ==
    [][(logging = "obs" /\ pc = "parsing" /\ pc' # "idle"
        /\ ~IsMalformed(log'[Len(log')])) =>
          LET o == log'[Len(log')]
              k == KeyOf(o)
          IN  /\ pc' = "parsing"
              /\ k # NoId =>
                    /\ k \in DOMAIN parser'.users
                    /\ Truthy(IdentityOf(o).username)
                          => parser'.users[k].username = IdentityOf(o).username]_vars

-----------------------------------------------------------------------------
(* process_files over a batch of paths (user_processor.py lines 25-77) and   *)
(* the reply of the /process command (handlers.py lines 133-150)             *)

\* A path is [kind, exists, decodes, records, state, members]:
\*   kind     "json" | "html" | "other" | "zip", by the end of its name
\*   exists   os.path.exists(file_path)
\*   decodes  the file is read as its container format (json.load succeeds)
\*   records  the records of a JSON or HTML file
\*   state    of an archive: "ok" | "empty" (no member) | "bad" (BadZipFile)
\*   members  of an archive, as os.walk lists them after extractall
File(kind, decodes, records) ==
    [kind |-> kind, exists |-> TRUE, decodes |-> decodes, records |-> records,
     state |-> "", members |-> <<>>]

Archive(state, members) ==
    [kind |-> "zip", exists |-> TRUE, decodes |-> FALSE, records |-> <<>>,
     state |-> state, members |-> members]

MissingPath == [File("json", FALSE, <<>>) EXCEPT !.exists = FALSE]

AuthorRecord(message_data, date) ==
    [op |-> "author", message_data |-> message_data, date |-> date, id |-> IdAt(date),
     phone_number |-> None, mention |-> None]

\* the files of the model
AnnJson ==
    File("json", TRUE, << AuthorRecord(StrAuthor("Ann Lee", "user1"), 2),
                          [op |-> "mention", username |-> "alice"] >>)
BobJson ==
    File("json", TRUE,
         << AuthorRecord(ObjAuthor([id |-> 1, username |-> "bob_smith",
                                    is_bot |-> TRUE]), 1) >>)
AliceHtml ==
    File("html", TRUE, << [op |-> "html_author", full_name |-> "alice", date |-> 1] >>)
\* syntactically invalid JSON: json.load raises JSONDecodeError
BrokenJson == File("json", FALSE, <<>>)
\* a record of an unexpected shape ends the pass
AbortedJson ==
    File("json", TRUE, << AuthorRecord(StrAuthor("alice", "user2"), 1),
                          [op |-> "malformed", shape |-> "message is not an object"] >>)
\* an export without messages
SilentJson == File("json", TRUE, <<>>)
\* a file that is neither .json nor .html nor .zip
NotesTxt == File("other", TRUE, <<>>)

BatchFiles == {AnnJson, BobJson, AliceHtml, BrokenJson, AbortedJson, SilentJson, NotesTxt}

\* the archives of the model; os.walk lists the members of a directory in an
\* order the file system chooses, so both orders are in the catalogue
BatchArchives ==
    { Archive("ok", <<AnnJson, NotesTxt>>), Archive("ok", <<BobJson, AliceHtml>>),
      Archive("ok", <<AliceHtml, BobJson>>), Archive("ok", <<NotesTxt>>),
      Archive("empty", <<>>), Archive("bad", <<AnnJson>>) }

IsParsed(file) == file.kind \in {"json", "html"}

\* faulty variant: every member of the archive is kept
ExtractZip_AllMembers(zip) == IF zip.state # "ok" THEN <<>> ELSE zip.members

\* lines 79-120: _extract_zip
ExtractZip(zip) ==
    IF zip.state # "ok" THEN <<>> ELSE SelectSeq(zip.members, IsParsed)

\* what parser.parse(file_path) returns (json_parser.py 19-90, html_parser.py 19-67)
ParseFile(file) == IF ~file.decodes THEN {} ELSE ParseOf(file.kind, file.records)

\* faulty variant: the users of a file replace the running roster, an empty
\* list included
MergeParsed_Replace(users, parsed) == MergeUsers(EmptyDict, parsed)

\* lines 60-65: the users of a parsed file are merged when there are any
MergeParsed(users, parsed) == IF parsed # {} THEN MergeUsers(users, parsed) ELSE users

\* a new UserProcessor is given a list of paths (handlers.py lines 134-135)
InitBatch ==
    /\ parser = NewParser("none")
    /\ pc = "idle"
    /\ proc_users = EmptyDict
    /\ nfiles = 0
    /\ nobs = 0
    /\ logging = "off"
    /\ log = <<>>
    /\ fileLog = <<>>
    /\ scan = NoScan
    /\ batch = [NoBatch EXCEPT !.phase = "paths"]
    /\ user_files = EmptyDict
    /\ call = NoCall

\* lines 30-40, one path of file_paths
TakePath(path, found) ==
    /\ batch.phase = "paths"
    /\ Len(batch.paths) < MaxPaths
    /\ batch' = [batch EXCEPT !.paths = Append(@, path),
                              !.extracted_files = @ \o found]
    /\ UNCHANGED <<parser, pc, proc_users, nfiles, nobs, logging, log, fileLog, scan, user_files, call>>

\* lines 31-33
PathMissing == TakePath(MissingPath, <<>>)

\* lines 36-38
PathArchive == \E zip \in BatchArchives : TakePath(zip, ExtractZip(zip))

\* lines 39-40
PathFile == \E file \in BatchFiles : TakePath(file, <<file>>)

\* lines 43-45: nothing to process
NoFiles ==
    /\ batch.phase = "paths"
    /\ batch.extracted_files = <<>>
    /\ batch' = [batch EXCEPT !.phase = "returned", !.result = {}]
    /\ UNCHANGED <<parser, pc, proc_users, nfiles, nobs, logging, log, fileLog, scan, user_files, call>>

\* line 48: the loop over extracted_files starts
BeginFiles ==
    /\ batch.phase = "paths"
    /\ batch.extracted_files # <<>>
    /\ batch' = [batch EXCEPT !.phase = "files", !.next = 1]
    /\ UNCHANGED <<parser, pc, proc_users, nfiles, nobs, logging, log, fileLog, scan, user_files, call>>

\* lines 49-65: a .json or .html file is parsed and its users merged
ParseNext ==
    /\ batch.phase = "files"
    /\ batch.next <= Len(batch.extracted_files)
    /\ IsParsed(batch.extracted_files[batch.next])
    /\ proc_users' = MergeParsed(proc_users, ParseFile(batch.extracted_files[batch.next]))
    /\ batch' = [batch EXCEPT !.next = @ + 1]
    /\ UNCHANGED <<parser, pc, nfiles, nobs, logging, log, fileLog, scan, user_files, call>>

\* lines 55-57: the format is not supported
SkipUnsupported ==
    /\ batch.phase = "files"
    /\ batch.next <= Len(batch.extracted_files)
    /\ ~IsParsed(batch.extracted_files[batch.next])
    /\ batch' = [batch EXCEPT !.next = @ + 1]
    /\ UNCHANGED <<parser, pc, proc_users, nfiles, nobs, logging, log, fileLog, scan, user_files, call>>

\* lines 70-73: result = list(self.users.values())
ReturnUsers ==
    /\ batch.phase = "files"
    /\ batch.next > Len(batch.extracted_files)
    /\ batch' = [batch EXCEPT !.phase = "returned",
                              !.result = {proc_users[k] : k \in DOMAIN proc_users}]
    /\ UNCHANGED <<parser, pc, proc_users, nfiles, nobs, logging, log, fileLog, scan, user_files, call>>

\* handlers.py lines 137-150: "if not users" answers that no participant was
\* found, otherwise the export is generated and sent
Reply ==
    /\ batch.phase = "returned"
    /\ batch' = [batch EXCEPT !.phase = "replied",
                              !.reply = IF batch.result = {}
                                        THEN "participants not found" ELSE "export"]
    /\ UNCHANGED <<parser, pc, proc_users, nfiles, nobs, logging, log, fileLog, scan, user_files, call>>

NextBatch ==
    \/ PathMissing
    \/ PathArchive
    \/ PathFile
    \/ NoFiles
    \/ BeginFiles
    \/ ParseNext
    \/ SkipUnsupported
    \/ ReturnUsers
    \/ Reply

SpecBatch == InitBatch /\ [][NextBatch]_vars

\* process_files as a function of its paths: lines 30-40, 43-45, 48-68, 70-73
RECURSIVE ExtractedFilesOf(_)
ExtractedFilesOf(paths) ==
    IF paths = <<>> THEN <<>>
    ELSE (IF ~Head(paths).exists THEN <<>>
          ELSE IF Head(paths).kind = "zip" THEN ExtractZip(Head(paths))
          ELSE <<Head(paths)>>) \o ExtractedFilesOf(Tail(paths))

ProcessFilesOf(paths) ==
    LET files == ExtractedFilesOf(paths)
        parsed == [i \in 1..Len(files) |->
                      IF IsParsed(files[i]) THEN ParseFile(files[i]) ELSE {}]
        users == MergeFiles(EmptyDict, parsed)
    IN  IF files = <<>> THEN {} ELSE {users[k] : k \in DOMAIN users}

-----------------------------------------------------------------------------
(* C26: a file that fails is left out of the batch *)

\* parse() ends in one of its exception handlers
FailsToParse(file) ==
    \/ ~file.decodes
    \/ RunFrom([st |-> NewParser(file.kind), raised |-> FALSE], file.records).raised

\* the path does not exist, has an extension that is not recognized, or is a
\* file that fails to parse
IsFailing(path) ==
    \/ ~path.exists
    \/ path.kind = "other"
    \/ IsParsed(path) /\ FailsToParse(path)

RemoveAt(seq, i) == SubSeq(seq, 1, i - 1) \o SubSeq(seq, i + 1, Len(seq))

\* C26: a file of the batch that does not exist, has an unrecognized
\* extension or fails to parse leaves the running roster as it is, and
\* process_files returns the roster it returns for the batch without that
\* file.
C26_FailingFileIsLeftOut ==
    [][/\ (batch.phase = "files" /\ batch'.phase = "files"
           /\ IsFailing(batch.extracted_files[batch.next]))
              => proc_users' = proc_users
       /\ (batch.phase # "returned" /\ batch'.phase = "returned")
              => \A i \in 1..Len(batch.paths) :
                    IsFailing(batch.paths[i])
                        => batch'.result = ProcessFilesOf(RemoveAt(batch.paths, i))]_vars

\* a missing path, a good file and a file whose parse is aborted: the call
\* returned the users of the good file only
C26_Witness ==
    /\ batch.phase = "returned"
    /\ batch.paths = <<MissingPath, AnnJson, AbortedJson>>
    /\ {u.user_id : u \in batch.result} = {1, Hash("alice")}
    /\ batch.result = ParseFile(AnnJson)

-----------------------------------------------------------------------------
(* C27: the overall error *)

\* no path of the batch gives a file that is read as its container format
NoReadableFile(paths) ==
    \A i \in 1..Len(ExtractedFilesOf(paths)) :
        LET file == ExtractedFilesOf(paths)[i]
        IN  ~(IsParsed(file) /\ file.decodes)

\* what the caller is told is neither the answer to an empty roster nor an export
ErrorReported == batch.reply \notin {"participants not found", "export"}

\* C27 (as stated): the caller of process_files is told of an overall error,
\* which is not what it is told for an empty roster, exactly when the batch
\* has no readable file and no identity; readable files without participants
\* give an empty roster and no error.
C27_OverallErrorIsReported ==
    (batch.phase = "replied" /\ Len(batch.paths) > 0)
        => (ErrorReported <=> (NoReadableFile(batch.paths) /\ batch.result = {}))

-----------------------------------------------------------------------------
(* C28: archives degrade to zero members *)

\* the members of an archive whose names end in .json or .html, in the order
\* of the listing; none when the archive is empty or cannot be opened
UsableMembers(zip) ==
    LET idx == {i \in 1..Len(zip.members) : zip.members[i].kind \in {"json", "html"}}
        Nth(n) == CHOOSE i \in idx : Cardinality({j \in idx : j < i}) = n - 1
    IN  IF zip.state \in {"empty", "bad"} THEN <<>>
        ELSE [n \in 1..Cardinality(idx) |-> zip.members[Nth(n)]]

\* the batch with every archive replaced by its usable members
RECURSIVE Unpacked(_)
Unpacked(paths) ==
    IF paths = <<>> THEN <<>>
    ELSE (IF Head(paths).exists /\ Head(paths).kind = "zip"
          THEN UsableMembers(Head(paths)) ELSE <<Head(paths)>>)
         \o Unpacked(Tail(paths))

\* C28: an archive adds to the files of the batch exactly its members whose
\* names end in .json or .html, and nothing when it is empty, cannot be opened
\* or has no such member; process_files returns what it returns for the batch
\* with every archive replaced by those members, so the other paths are
\* processed and their identities returned.
C28_ArchiveGivesItsUsableMembers ==
    [][/\ (batch.phase = "paths" /\ Len(batch'.paths) = Len(batch.paths) + 1
           /\ batch'.paths[Len(batch'.paths)].kind = "zip")
              => batch'.extracted_files =
                    batch.extracted_files
                    \o UsableMembers(batch'.paths[Len(batch'.paths)])
       /\ (batch.phase # "returned" /\ batch'.phase = "returned")
              => /\ batch'.result = ProcessFilesOf(Unpacked(batch.paths))
                 /\ \A i \in 1..Len(batch.paths) :
                       (batch.paths[i].kind = "zip"
                        /\ UsableMembers(batch.paths[i]) = <<>>)
                          => batch'.result = ProcessFilesOf(RemoveAt(batch.paths, i))]_vars

\* an archive that cannot be opened, an archive with one export and one other
\* file, and an HTML export: the users of the two exports are returned
C28_Witness ==
    /\ batch.phase = "returned"
    /\ batch.paths = <<Archive("bad", <<AnnJson>>), Archive("ok", <<AnnJson, NotesTxt>>),
                       AliceHtml>>
    /\ batch.extracted_files = <<AnnJson, AliceHtml>>
    /\ {u.user_id : u \in batch.result} = {1, Hash("alice")}

-----------------------------------------------------------------------------
(* C29: file isolation *)

\* the last file of a batch whose earlier file gave a roster, with the
\* observations recorded
InitSecond ==
    /\ parser = NewParser("none")
    /\ pc = "idle"
    /\ proc_users \in {MergeParsed(EmptyDict, ParseFile(file)) : file \in {AnnJson, BobJson}}
    /\ nfiles = MaxFiles - 1
    /\ nobs = 0
    /\ logging = "obs"
    /\ log = <<>>
    /\ fileLog = <<>>
    /\ scan = NoScan
    /\ batch = NoBatch
    /\ user_files = EmptyDict
    /\ call = NoCall

SpecSecond == InitSecond /\ [][Next]_vars

EmptyMaps(st) ==
    /\ st.users = EmptyDict
    /\ st.user_first_message_date = EmptyDict
    /\ st.user_first_message_id = EmptyDict
    /\ st.user_first_reaction_date = EmptyDict
    /\ st.user_first_reaction_emoji = EmptyDict

\* C29: the parser of a file starts with an empty roster and empty
\* earliest-message and earliest-reaction maps; the roster of the file is the
\* one a fresh parser gives for the records of that file alone; the running
\* roster of the aggregator is as it was while the file is parsed and changes
\* only when the users of the parsed file are merged.
C29_FilesAreIsolated ==
    [][/\ (pc = "idle" /\ pc' # "idle") => EmptyMaps(parser')
       /\ (pc = "parsing" /\ pc' # "idle") => proc_users' = proc_users
       /\ pc' # "idle" =>
             ParseResult(parser', pc' = "aborted") = ParseOf(parser'.kind, log')
       /\ (pc # "idle" /\ pc' = "idle") =>
             proc_users' = IF ParseOf(parser.kind, log) # {}
                           THEN MergeUsers(proc_users, ParseOf(parser.kind, log))
                           ELSE proc_users]_vars

\* key 1 is in the running roster with the handle of an earlier file; the
\* file being parsed has two records of key 1 without that handle
C29_Witness ==
    /\ logging = "obs" /\ pc = "parsing" /\ Len(log) = 2
    /\ 1 \in DOMAIN proc_users /\ proc_users[1].username = "bob_smith"
    /\ KeyOf(log[1]) = 1 /\ KeyOf(log[2]) = 1
    /\ 1 \in DOMAIN parser.users /\ ~Truthy(parser.users[1].username)
    /\ ~parser.users[1].is_bot /\ proc_users[1].is_bot

-----------------------------------------------------------------------------
(* C30: the id of the earliest message *)

\* the file so far is made of authored messages of one key (not 0), whose
\* dates can be ordered against each other
AuthoredByOneKey ==
    /\ logging = "obs" /\ pc = "parsing" /\ Len(log) > 0
    /\ \A i \in 1..Len(log) :
          /\ log[i].op = "author"
          /\ KeyOf(log[i]) = KeyOf(log[1])
    /\ KeyOf(log[1]) \notin {NoId, 0}
    /\ MutuallyComparable({log[i].date : i \in 1..Len(log)} \ {NoDate})

\* C30 (as stated): after authored messages of one key, the earliest-message
\* id of the identity is the id of a message whose date is the
\* earliest-message date of the identity, and is unset when that message has
\* no id.
C30_IdOfTheEarliestMessage ==
    AuthoredByOneKey =>
        \A u \in CurrentRoster :
            u.first_message_date # NoDate =>
                \E i \in 1..Len(log) :
                    /\ log[i].date = u.first_message_date
                    /\ IF IdTruthy(log[i].id) THEN u.first_message_id = log[i].id
                       ELSE ~IdTruthy(u.first_message_id)

-----------------------------------------------------------------------------
(* C31: a deletion tombstone changes nothing *)

\* C31: a record whose author object has the tombstone id, seen as the
\* author of a message, as a reactor or as the user of a text-mention, leaves
\* the users of the parser and its four maps as they were, and the pass over
\* the file goes on.
C31_TombstoneChangesNothing ==
    [][(logging = "obs" /\ pc = "parsing" /\ pc' # "idle"
        /\ IsDeletion(log'[Len(log')]))
          => parser' = parser /\ pc' = "parsing"]_vars

\* key 1 has a message and a reaction on record; a tombstone then reacts with
\* a date and a symbol of its own
C31_Witness ==
    /\ logging = "obs" /\ pc = "parsing" /\ Len(log) = 3
    /\ log[1].op = "author" /\ KeyOf(log[1]) = 1 /\ log[1].date = 1
    /\ log[2].op = "reaction" /\ KeyOf(log[2]) = 1 /\ log[2].date = 2
    /\ log[3].op = "reaction" /\ IsDeletion(log[3]) /\ log[3].date \in AwareTimes
    /\ DOMAIN parser.users = {1}
    /\ DOMAIN parser.user_first_reaction_date = {1}
    /\ DOMAIN parser.user_first_message_date = {1}

-----------------------------------------------------------------------------
(* C32: re-discovery is harmless *)

EntityMention(h) == [op |-> "mention", username |-> h]
ScannedMention(h) == [op |-> "scan_mention", username |-> h]

Occurs(o, seq) == \E i \in 1..Len(seq) : seq[i] = o

Without(seq, o) == SelectSeq(seq, LAMBDA x : x # o)

\* the handle was found by a mention entity and by the scan of the text
FoundTwice(h) == Occurs(EntityMention(h), log) /\ Occurs(ScannedMention(h), log)

\* C32: when a mention entity and the scan of the text of a JSON file both
\* find a handle, the roster of the file is the roster of the file with only
\* the entity or only the scan finding it, and it has one identity under
\* the key of the handle (at most one, and one that carries the handle
\* whenever the pass over the file is not aborted).
C32_RediscoveryIsHarmless ==
    (logging = "obs" /\ pc # "idle" /\ parser.kind = "json") =>
        \A h \in Handles :
            FoundTwice(h) =>
                /\ CurrentRoster = ParseOf("json", Without(log, ScannedMention(h)))
                /\ CurrentRoster = ParseOf("json", Without(log, EntityMention(h)))
                /\ Cardinality({u \in CurrentRoster : u.user_id = Hash(h)}) <= 1
                /\ pc = "parsing" =>
                      \E u \in CurrentRoster : u.user_id = Hash(h) /\ u.username = h

\* an entity finds the handle, the author whose name hashes to the same key
\* writes, then the scan of a text finds the handle again
C32_Witness ==
    /\ logging = "obs" /\ pc = "parsing" /\ Len(log) = 3
    /\ log[1] = EntityMention("alice")
    /\ log[2].op = "author" /\ KeyOf(log[2]) = Hash("alice") /\ log[2].date = 1
    /\ log[3] = ScannedMention("alice")
    /\ DOMAIN parser.users = {Hash("alice")}
    /\ parser.users[Hash("alice")].username = "alice"

-----------------------------------------------------------------------------
(* C33: the aggregator keeps the values of the first file *)

\* the files, in the order of the batch, whose roster has key k
FilesWith(k) == {i \in 1..Len(fileLog) : \E u \in fileLog[i] : u.user_id = k}

UserIn(i, k) == CHOOSE u \in fileLog[i] : u.user_id = k

\* an identity without the three fields _merge_users may change
WithoutNames(u) == [u EXCEPT !.username = None, !.first_name = None, !.last_name = None]

\* the last value of the files that is not empty, or the value of the first file
LastSupplied(k, Field(_)) ==
    LET files == {i \in FilesWith(k) : Truthy(Field(UserIn(i, k)))}
    IN  IF files = {} THEN Field(UserIn(SetMin(FilesWith(k)), k))
        ELSE Field(UserIn(CHOOSE i \in files : \A j \in files : j <= i, k))

\* the first value of the files that is not empty, or the value of the first file
FirstSupplied(k, Field(_)) ==
    LET files == {i \in FilesWith(k) : Truthy(Field(UserIn(i, k)))}
    IN  IF files = {} THEN Field(UserIn(SetMin(FilesWith(k)), k))
        ELSE Field(UserIn(SetMin(files), k))

UsernameOf(u) == u.username
FirstNameOf(u) == u.first_name
LastNameOf(u) == u.last_name

\* C33: for a key resolved in several files, the identity of the aggregator
\* is the identity of the first file that has the key, except for the handle
\* (that of the last file that supplies one) and the given and family names
\* (those of the first file that supplies them).
C33_AggregatorKeepsFirstFile ==
    (logging = "files" /\ pc = "idle") =>
        /\ DOMAIN proc_users = {k \in UNION {{u.user_id : u \in fileLog[i]} :
                                              i \in 1..Len(fileLog)} : TRUE}
        /\ \A k \in DOMAIN proc_users :
              LET first == UserIn(SetMin(FilesWith(k)), k)
                  r == proc_users[k]
              IN  /\ WithoutNames(r) = WithoutNames(first)
                  /\ r.username = LastSupplied(k, UsernameOf)
                  /\ r.first_name = FirstSupplied(k, FirstNameOf)
                  /\ r.last_name = FirstSupplied(k, LastNameOf)

\* key 1 is in two files; the second file has the earlier message and a
\* handle: the aggregator has the date of the first file and that handle
C33_Witness ==
    /\ BatchDone /\ Len(fileLog) = 2
    /\ FilesWith(1) = {1, 2}
    /\ UserIn(1, 1).first_message_date = 2 /\ ~Truthy(UserIn(1, 1).username)
    /\ UserIn(2, 1).first_message_date = 1 /\ UserIn(2, 1).username = "alice"
    /\ proc_users[1].first_message_date = 2 /\ proc_users[1].username = "alice"
    /\ proc_users[1].first_message_id = IdAt(2)

-----------------------------------------------------------------------------
(* C34: rosters only grow *)

\* process_files is called once more on the same UserProcessor: self.users is
\* set in __init__ only (user_processor.py lines 21-23), a call starts at
\* line 28 with the users of the calls before
CallAgain ==
    /\ pc = "idle"
    /\ nfiles > 0
    /\ batch.calls < MaxCalls - 1
    /\ batch' = [batch EXCEPT !.calls = @ + 1]
    /\ nfiles' = 0
    /\ UNCHANGED <<parser, pc, proc_users, nobs, logging, log, fileLog, scan, user_files, call>>

NextReuse == Next \/ CallAgain

\* a UserProcessor used for several calls, the roster of every file recorded
SpecReuse == InitFiles /\ [][NextReuse]_vars

\* C34: the keys stored by a parser stay stored under every later record of
\* its file, a deletion included; the keys stored by the aggregator stay
\* stored under every merge and every further call of process_files.
C34_RostersOnlyGrow ==
    [][/\ (pc = "parsing" /\ pc' # "idle")
              => DOMAIN parser.users \subseteq DOMAIN parser'.users
       /\ DOMAIN proc_users \subseteq DOMAIN proc_users']_vars

\* a first call stored a key; in a second call a file with a deletion and
\* another key was merged: both keys are stored
C34_Witness ==
    /\ logging = "files" /\ pc = "idle" /\ batch.calls = 1 /\ nfiles = 1
    /\ Len(fileLog) = 2
    /\ {u.user_id : u \in fileLog[1]} = {0}
    /\ {u.user_id : u \in fileLog[2]} = {1}
    /\ DOMAIN proc_users = {0, 1}

-----------------------------------------------------------------------------
(* The bot: handle_documents and process_files_command on user_files.      *)
(* main.py builds the Application without concurrent updates, so one       *)
(* handler runs to its end before the next update is taken.                *)

\* the chat users that write to the bot (effective_user.id)
ChatUsers == {1, 2}

\* update.message.document is None
NoDocument == [file_name |-> <<>>, file_size |-> 0]

\* a document: its file name as <<stem, extension>> and its size
Document(stem, extension, file_size) ==
    [file_name |-> <<stem, extension>>, file_size |-> file_size]

\* the documents a user sends
Documents ==
    {Document("result", ".json", 1), Document("export", ".zip", 1),
     Document("notes", ".txt", 1), Document("result", ".json", MAX_FILE_SIZE + 1)}

\* str.endswith on the file name
EndsWith(file_name, suffix) == file_name[Len(file_name)] = suffix

\* the entry handle_documents creates for a user
NewEntry == [documents |-> <<>>, temp_dir |-> None, processing_msg |-> None]

\* del d[k]
Del(d, k) == [x \in DOMAIN d \ {k} |-> d[x]]

\* the documents pending for a user
Pending(uf, user_id) ==
    IF user_id \in DOMAIN uf THEN uf[user_id].documents ELSE <<>>

\* the length of the longest pending list the model follows
MaxPending == MAX_FILES + 1

\* the branch handle_documents takes
UploadOutcome(uf, user_id, document) ==
    IF document = NoDocument THEN "no_document"
    ELSE IF document.file_size > MAX_FILE_SIZE THEN "too_large"
    ELSE IF ~(\/ EndsWith(document.file_name, ".json")
              \/ EndsWith(document.file_name, ".html")
              \/ EndsWith(document.file_name, ".zip")) THEN "unsupported"
    ELSE IF Len(Pending(uf, user_id)) + 1 > MAX_FILES THEN "too_many"
    ELSE "accepted"

\* user_files after handle_documents; sent tells whether the reply of the
\* branch was delivered (reply_text raises otherwise, and the except clause
\* of the handler only logs and replies)
AfterUpload(uf, user_id, document, sent) ==
    LET outcome == UploadOutcome(uf, user_id, document)
        entry == IF user_id \in DOMAIN uf THEN uf ELSE Put(uf, user_id, NewEntry)
        appended == [entry EXCEPT ![user_id].documents = Append(@, document)]
    IN  CASE outcome = "no_document" -> uf
          [] outcome \in {"too_large", "unsupported"} -> entry
          [] outcome = "too_many" ->
                IF sent
                THEN [appended EXCEPT ![user_id].documents = SubSeq(@, 1, Len(@) - 1)]
                ELSE appended
          [] outcome = "accepted" ->
                IF sent /\ Len(appended[user_id].documents) = 1
                THEN [appended EXCEPT ![user_id].processing_msg = "msg"]
                ELSE appended

InitBot == InitCommon /\ nfiles = 0 /\ logging = "off"

\* one call of handle_documents
HandleDocuments(user_id, document, sent) ==
    /\ Len(Pending(user_files, user_id)) < MaxPending
    /\ user_files' = AfterUpload(user_files, user_id, document, sent)
    /\ call' = [handler |-> "handle_documents", user_id |-> user_id,
                outcome |-> UploadOutcome(user_files, user_id, document),
                sent |-> sent, processed |-> 0]
    /\ UNCHANGED <<parser, pc, proc_users, nfiles, nobs, logging, log, fileLog, scan, batch>>

\* how a call of process_files_command with pending documents can end
RunOutcomes ==
    {"start_failure", "download_failure", "processing_failure", "no_participants",
     "no_result", "delivered", "sending_failure", "error_unsent"}

\* the outcomes that pass through the finally clause of the inner try
RunsFinally(outcome) == outcome \in RunOutcomes \ {"start_failure"}

\* the outcomes that end in the except clause of the outer try
RunsExcept(outcome) ==
    outcome \in {"no_files_unsent", "start_failure", "download_failure",
                 "processing_failure", "error_unsent"}

\* the finally clause of the inner try
Finally(uf, user_id) ==
    IF user_id # 0 /\ user_id \in DOMAIN uf THEN Del(uf, user_id) ELSE uf

\* faulty variant: the except clause leaves the entry of the user
OuterExcept_KeepsEntry(uf, user_id) == uf

\* the except clause of the outer try
OuterExcept(uf, user_id) ==
    IF user_id # 0 /\ user_id \in DOMAIN uf THEN Del(uf, user_id) ELSE uf

\* user_files after process_files_command
AfterProcess(uf, user_id, outcome) ==
    LET started == IF outcome \in RunOutcomes \ {"start_failure"}
                   THEN [uf EXCEPT ![user_id].temp_dir = "tmp"]
                   ELSE uf
        cleaned == IF RunsFinally(outcome) THEN Finally(started, user_id) ELSE started
    IN  IF RunsExcept(outcome) THEN OuterExcept(cleaned, user_id) ELSE cleaned

\* one call of process_files_command
ProcessFilesCommand(user_id, outcome) ==
    /\ IF Pending(user_files, user_id) = <<>>
       THEN outcome \in {"no_files", "no_files_unsent"}
       ELSE outcome \in RunOutcomes
    /\ user_files' = AfterProcess(user_files, user_id, outcome)
    /\ call' = [handler |-> "process_files_command", user_id |-> user_id,
                outcome |-> outcome, sent |-> ~RunsExcept(outcome),
                processed |-> Len(Pending(user_files, user_id))]
    /\ UNCHANGED <<parser, pc, proc_users, nfiles, nobs, logging, log, fileLog, scan, batch>>

NextBot ==
    \/ \E user_id \in ChatUsers, document \in Documents \cup {NoDocument}, sent \in BOOLEAN :
          HandleDocuments(user_id, document, sent)
    \/ \E user_id \in ChatUsers, outcome \in RunOutcomes \cup {"no_files", "no_files_unsent"} :
          ProcessFilesCommand(user_id, outcome)

SpecBot == InitBot /\ [][NextBot]_vars

\* C35 (as stated): once a call of handle_documents has returned, no user has
\* more than MAX_FILES pending documents, whether or not the replies of the
\* calls were delivered; and an upload that is too large, has an extension
\* other than .json, .html or .zip, or would exceed the limit leaves the
\* pending list of every user as it was.
C35_PendingUploadsAreBounded ==
    [][call'.handler = "handle_documents" =>
        /\ \A u \in ChatUsers : Len(Pending(user_files', u)) <= MAX_FILES
        /\ call'.outcome \in {"too_large", "unsupported", "too_many"} =>
              \A u \in ChatUsers : Pending(user_files', u) = Pending(user_files, u)]_vars

\* the last step was a call of process_files_command by a user with pending
\* documents
RanWithDocuments == call'.handler = "process_files_command" /\ call'.processed > 0

\* the last step was a call of process_files_command by a user without
\* pending documents
RanWithoutDocuments == call'.handler = "process_files_command" /\ call'.processed = 0

\* the call before the last one was a /process of the same user
RepeatedProcess ==
    /\ call.handler = "process_files_command"
    /\ call'.handler = "process_files_command"
    /\ call'.user_id = call.user_id

\* C36 (as stated): after process_files_command has run for a user with at
\* least one pending document, the entry of the user is removed from
\* user_files however the run ended, so a /process that follows without new
\* uploads processes nothing; and a /process with no pending document changes
\* no state.
C36_SessionIsConsumedOnce ==
    [][/\ RanWithDocuments => call'.user_id \notin DOMAIN user_files'
       /\ RepeatedProcess => call'.processed = 0
       /\ RanWithoutDocuments => user_files' = user_files]_vars

\* C36 (amended): after process_files_command has run for a user with at
\* least one pending document, the entry of the user is removed from
\* user_files however the run ended and the entries of the other users stay,
\* so a /process that follows without new uploads processes nothing; a
\* /process with no pending document leaves the pending documents of every
\* user and the entries of the other users as they were, and changes no state
\* at all when its reply is delivered (when sending the reply fails, an entry
\* of the caller that has no documents is removed).
C36_SessionIsConsumedOncePendingKept ==
    [][/\ RanWithDocuments =>
             /\ call'.user_id \notin DOMAIN user_files'
             /\ \A u \in ChatUsers \ {call'.user_id} :
                   /\ u \in DOMAIN user_files' <=> u \in DOMAIN user_files
                   /\ u \in DOMAIN user_files => user_files'[u] = user_files[u]
       /\ RepeatedProcess => call'.processed = 0
       /\ RanWithoutDocuments =>
             /\ \A u \in ChatUsers : Pending(user_files', u) = Pending(user_files, u)
             /\ \A u \in ChatUsers \ {call'.user_id} :
                   /\ u \in DOMAIN user_files' <=> u \in DOMAIN user_files
                   /\ u \in DOMAIN user_files => user_files'[u] = user_files[u]
             /\ call'.outcome = "no_files" => user_files' = user_files
             /\ call'.outcome = "no_files_unsent" =>
                   user_files' = Del(user_files, call'.user_id)]_vars

\* a run that failed before its first download consumed the session of a
\* user while the other user still has pending documents
C36_Witness ==
    /\ call.handler = "process_files_command"
    /\ call.outcome = "start_failure"
    /\ call.processed = MAX_FILES
    /\ DOMAIN user_files = ChatUsers \ {call.user_id}
    /\ \A u \in DOMAIN user_files : Len(user_files[u].documents) > 0

-----------------------------------------------------------------------------
(* C37: the channel flag is never false and never reverts *)

\* profile texts: none, empty, with a link, with a link in capitals, with a
\* keyword and no link
ProfileTexts == {None, "", "t.me/ann", "T.ME/ANN", "my channel"}

HasChannelLink(bio) ==
    Truthy(bio) /\ (Contains(bio, "t.me/") \/ Contains(bio, "telegram.me/"))

\* the identities an observation gives to a parser that has seen nothing
ExtractedFrom(o) == RosterOf(Observe(NewParser("none"), o).st)

\* C37: every identity an extractor produces has the channel flag unknown or
\* true, and true only when its profile text contains "t.me/" or
\* "telegram.me/"; and once the identity of a key has the flag true in a
\* parser, it keeps it under every later observation.
C37_ChannelFlagNeverFalseNeverReverts ==
    [][(logging = "obs" /\ pc = "parsing" /\ pc' # "idle") =>
          /\ \A bio \in ProfileTexts :
                /\ DetectChannelInProfile(bio) \in {"None", "True"}
                /\ DetectChannelInProfile(bio) = "True" <=> HasChannelLink(bio)
          /\ \A u \in ExtractedFrom(log'[Len(log')]) :
                /\ u.has_channel \in {"None", "True"}
                /\ u.has_channel = "True" => HasChannelLink(u.bio)
          /\ \A k \in DOMAIN parser.users :
                parser.users[k].has_channel = "True"
                    => /\ k \in DOMAIN parser'.users
                       /\ parser'.users[k].has_channel = "True"]_vars

\* a key seen with a link in its profile, then twice without a profile text
C37_Witness ==
    /\ logging = "obs" /\ pc = "parsing" /\ Len(log) = 3
    /\ \A i \in 1..3 : log[i].op = "author" /\ KeyOf(log[i]) = 1
    /\ \E u \in ExtractedFrom(log[1]) : u.has_channel = "True"
    /\ \A i \in 2..3 : \A u \in ExtractedFrom(log[i]) : u.has_channel = "None"
    /\ log[2].message_data.from.type = "dict"
    /\ log[3].message_data.from.type = "str"
    /\ parser.users[1].has_channel = "True"

-----------------------------------------------------------------------------
(* C38: the registration date mirrors the earliest message *)

\* C38 (as stated): in the roster get_unique_users() returns, the registration
\* date of every identity equals its earliest-message date: both unset, or
\* both the earliest authored-message date recorded for its key.
C38_RegistrationMirrorsEarliestMessage ==
    (logging = "obs" /\ pc # "idle") =>
        \A u \in CurrentRoster :
            /\ u.registration_date = u.first_message_date
            /\ u.first_message_date = Get(parser.user_first_message_date, u.user_id, NoDate)
            /\ (u.user_id = 0 \/ AuthoredDates(u.user_id) = {})
                  => u.first_message_date = NoDate
            /\ u.user_id \in DatedAuthorKeys
                  => u.first_message_date = SetMin(AuthoredDates(u.user_id))

\* a key whose second message is the earlier one: both dates follow it
C38_Witness ==
    /\ logging = "obs" /\ pc = "parsing" /\ Len(log) = 3
    /\ \A i \in 1..3 : log[i].op = "author" /\ KeyOf(log[i]) = 1
    /\ log[1].date = 2 /\ log[2].date = 1 /\ log[3].date = 2
    /\ \E u \in CurrentRoster :
          /\ u.user_id = 1
          /\ u.registration_date = 1 /\ u.first_message_date = 1

-----------------------------------------------------------------------------
(* C39: key 0 carries no history *)

\* the author field of the record is neither a string nor an object, or it
\* is an object without an id
HasNoAuthorId(o) ==
    /\ o.op \in {"author", "reaction"}
    /\ \/ o.message_data.from.type = "other"
       \/ /\ o.message_data.from.type = "dict"
          /\ "id" \notin DOMAIN o.message_data.from.value

\* the identity has no earliest-message and no earliest-reaction data
HasNoHistory(u) ==
    /\ u.registration_date = NoDate
    /\ u.first_message_date = NoDate
    /\ u.first_message_id = NoId
    /\ u.first_reaction_date = NoDate
    /\ u.first_reaction_emoji = None

\* C39: a record whose author field is neither a string nor an object, or is
\* an object without an id, is resolved under key 0 and its identity is
\* stored; and the parser never records an earliest-message or an
\* earliest-reaction date, id or symbol for key 0, so the identity of key 0
\* has none, whatever date, id or symbol the records carry.
C39_KeyZeroCarriesNoHistory ==
    [][(logging = "obs" /\ pc = "parsing" /\ pc' # "idle") =>
          LET o == log'[Len(log')]
          IN  /\ HasNoAuthorId(o) =>
                    /\ KeyOf(o) = 0
                    /\ pc' = "parsing"
                    /\ 0 \in DOMAIN parser'.users
              /\ 0 \notin DOMAIN parser'.user_first_message_date
              /\ 0 \notin DOMAIN parser'.user_first_message_id
              /\ 0 \notin DOMAIN parser'.user_first_reaction_date
              /\ 0 \notin DOMAIN parser'.user_first_reaction_emoji
              /\ \A u \in RosterOf(parser') \cup ParseResult(parser', pc' = "aborted") :
                    u.user_id = 0 => HasNoHistory(u)]_vars

\* a dated message with an id and a dated reaction with a symbol, both
\* without an author id: key 0 is in the roster, without history
C39_Witness ==
    /\ logging = "obs" /\ pc = "parsing" /\ Len(log) = 3
    /\ \A i \in 1..3 : HasNoAuthorId(log[i])
    /\ log[1].op = "author" /\ log[1].date = 1 /\ log[1].id = IdAt(1)
    /\ log[1].message_data.from.type = "dict"
    /\ log[2].op = "reaction" /\ log[2].date = 1 /\ log[2].emoji = "thumb"
    /\ log[3].op = "author" /\ log[3].message_data.from.type = "other"
    /\ \E u \in CurrentRoster : u.user_id = 0 /\ HasNoHistory(u)
====
